---- MODULE Spec2Model ----
(***************************************************************************)
(* Verification model of the BMF flow architecture viewer's graph core:    *)
(* the FlowGraph data model (src/src/models/task.py), the graph builder,   *)
(* dependency resolver and graph validator (src/src/graph/builder.py),     *)
(* the source parser (src/src/parsers/python_parser.py) and the            *)
(* configuration loader (src/src/config/loader.py).                        *)
(*                                                                         *)
(* Python values are modelled as follows.                                  *)
(*  - A task id (a str) is a positive integer in a FlowGraph, and the      *)
(*    name of the assigned variable in a parsed source.                    *)
(*  - A dict (FlowGraph.tasks) is a function from its keys to its values.  *)
(*    Python iterates a dict in insertion order; wherever the model        *)
(*    iterates FlowGraph.tasks (TaskOrder) the ids are numbered in the     *)
(*    order they were inserted, so iteration is in ascending id order.     *)
(*  - Where the code compares a task id with a Task object, the two are    *)
(*    told apart by a tag: Str(i) is the str, TaskObj(i) the Task whose    *)
(*    task_id is i.  Task.__eq__ answers False for a non-Task and compares *)
(*    task_id otherwise, so Python's == on these values is = on the tagged *)
(*    values.                                                              *)
(*  - A Python set that the code turns into a list is iterated in          *)
(*    ascending id order; where the order can change the result            *)
(*    (find_critical_path's max) every choice is a possible result.        *)
(*  - Task.metadata and Task.parameters are not modelled.                  *)
(*                                                                         *)
(* The state is the FlowGraph at hand (graph), the last call made and its  *)
(* outcome (call, ret), the class attribute ConfigLoader._config_cache     *)
(* (config_cache) and the files of the configuration directory             *)
(* (config_dir).  The graph operations never touch the last two.           *)
(***************************************************************************)
EXTENDS Integers, Sequences, FiniteSets, TLC

VARIABLES graph, call, ret, config_cache, config_dir

vars == <<graph, call, ret, config_cache, config_dir>>

(***************************************************************************)
(* Bounds of the model.                                                    *)
(***************************************************************************)
\* FlowGraph call sequences (specification Spec)
MaxIds == 2
MaxEdges == 2
\* graphs handed to the analyses (specification SpecAnalysis)
NumTasks == 4
NumEdges == 4

(***************************************************************************)
(* Helpers on sequences and sets.                                          *)
(***************************************************************************)
Range(s) == {s[i] : i \in DOMAIN s}

Max(S) == CHOOSE x \in S : \A y \in S : y <= x

Min(S) == CHOOSE x \in S : \A y \in S : x <= y

RECURSIVE AscSeq(_)
\* the list of a set of ids, in ascending order
AscSeq(S) == IF S = {} THEN <<>> ELSE <<Min(S)>> \o AscSeq(S \ {Min(S)})

(***************************************************************************)
(* ConfigLoader (config/loader.py).  A dict is a function on its keys; a   *)
(* configuration directory is the dict of its <name>.yaml files, each      *)
(* given by the document yaml.safe_load makes of it, or as a file on which *)
(* yaml.safe_load raises.                                                  *)
(***************************************************************************)
\* a file that yaml.safe_load turns into the document
YamlFile(document) == [parses |-> TRUE, document |-> document]

\* a file on which yaml.safe_load raises
InvalidYamlFile == [parses |-> FALSE, document |-> "None"]

\* {}
EmptyDict == [x \in {} |-> x]

\* d[k] = v
DictPut(d, k, v) == [x \in DOMAIN d \cup {k} |-> IF x = k THEN v ELSE d[x]]

\* outcome of load_config: the exception raised if any, the value returned,
\* the cache left, and whether the file was opened
LoadOutcome(raised, value, cache, read) ==
    [raised |-> raised, value |-> value, cache |-> cache, read |-> read]

load_config_without_cache(cache, dir, config_name) ==
    IF config_name \notin DOMAIN dir
    THEN LoadOutcome("FileNotFoundError", "None", cache, FALSE)
    ELSE IF ~dir[config_name].parses
    THEN LoadOutcome("YAMLError", "None", cache, TRUE)
    ELSE LoadOutcome("none", dir[config_name].document,
                     DictPut(cache, config_name, dir[config_name].document),
                     TRUE)

\* ConfigLoader.load_config
load_config(cache, dir, config_name) ==
    IF config_name \in DOMAIN cache
    THEN LoadOutcome("none", cache[config_name], cache, FALSE)
    ELSE IF config_name \notin DOMAIN dir
    THEN LoadOutcome("FileNotFoundError", "None", cache, FALSE)
    ELSE IF ~dir[config_name].parses
    THEN LoadOutcome("YAMLError", "None", cache, TRUE)
    ELSE LoadOutcome("none", dir[config_name].document,
                     DictPut(cache, config_name, dir[config_name].document),
                     TRUE)

(***************************************************************************)
(* Task, Edge (models/task.py)                                             *)
(***************************************************************************)
Str(i) == <<"str", i>>

\* Task.__hash__ / Task.__eq__: a Task is its task_id, and is no str
TaskObj(i) == <<"Task", i>>

Task(id, type) == [task_id |-> id, task_type |-> type]

Edge(s, t, label, type) ==
    [source_id |-> s, target_id |-> t, label |-> label, edge_type |-> type]

\* Edge.__eq__: equality is by the (source_id, target_id) pair only
EdgeEq(e, f) == e.source_id = f.source_id /\ e.target_id = f.target_id

(***************************************************************************)
(* FlowGraph (models/task.py)                                              *)
(***************************************************************************)
\* FlowGraph.__init__
FlowGraph(name) == [object_name |-> name, tasks |-> <<>>, edges |-> <<>>]

\* the keys of FlowGraph.tasks
TaskIds(g) == DOMAIN g.tasks

\* the keys of FlowGraph.tasks in iteration order
TaskOrder(g) == AscSeq(TaskIds(g))

\* self.tasks[task.task_id] = task
PutTask(tasks, task) ==
    [i \in DOMAIN tasks \cup {task.task_id} |->
        IF i = task.task_id THEN task ELSE tasks[i]]

Returned(g) == [graph |-> g, raised |-> "none"]

Raised(g, exc) == [graph |-> g, raised |-> exc]

add_task_overwrites(g, task) ==
    IF task.task_id \in TaskIds(g)
    THEN Raised([g EXCEPT !.tasks = PutTask(g.tasks, task)], "ValueError")
    ELSE Returned([g EXCEPT !.tasks = PutTask(g.tasks, task)])

\* FlowGraph.add_task
add_task(g, task) ==
    IF task.task_id \in TaskIds(g)
    THEN Raised(g, "ValueError")
    ELSE Returned([g EXCEPT !.tasks = PutTask(g.tasks, task)])

add_edge_unchecked_target(g, edge) ==
    IF edge.source_id \notin TaskIds(g)
    THEN Raised(g, "ValueError")
    ELSE IF \E i \in DOMAIN g.edges : EdgeEq(edge, g.edges[i])
    THEN Returned(g)
    ELSE Returned([g EXCEPT !.edges = Append(g.edges, edge)])

add_edge_replaces_duplicate(g, edge) ==
    IF edge.source_id \notin TaskIds(g)
    THEN Raised(g, "ValueError")
    ELSE IF edge.target_id \notin TaskIds(g)
    THEN Raised(g, "ValueError")
    ELSE IF \E i \in DOMAIN g.edges : EdgeEq(edge, g.edges[i])
    THEN Returned([g EXCEPT !.edges =
                      [i \in DOMAIN g.edges |->
                          IF EdgeEq(edge, g.edges[i]) THEN edge
                          ELSE g.edges[i]]])
    ELSE Returned([g EXCEPT !.edges = Append(g.edges, edge)])

\* FlowGraph.add_edge
add_edge(g, edge) ==
    IF edge.source_id \notin TaskIds(g)
    THEN Raised(g, "ValueError")
    ELSE IF edge.target_id \notin TaskIds(g)
    THEN Raised(g, "ValueError")
    ELSE IF \E i \in DOMAIN g.edges : EdgeEq(edge, g.edges[i])
    THEN Returned(g)
    ELSE Returned([g EXCEPT !.edges = Append(g.edges, edge)])

\* FlowGraph.get_upstream_tasks: key is the value passed as task_id
get_upstream_tasks(g, key) ==
    LET upstream_ids == {g.edges[i].source_id :
                            i \in {j \in DOMAIN g.edges :
                                      Str(g.edges[j].target_id) = key}}
    IN  {TaskObj(tid) : tid \in upstream_ids \cap TaskIds(g)}

\* FlowGraph.get_downstream_tasks: key is the value passed as task_id
get_downstream_tasks(g, key) ==
    LET downstream_ids == {g.edges[i].target_id :
                              i \in {j \in DOMAIN g.edges :
                                        Str(g.edges[j].source_id) = key}}
    IN  {TaskObj(tid) : tid \in downstream_ids \cap TaskIds(g)}

\* task.task_id of a Task object
TaskIdOf(t) == t[2]

\* [u.task_id for u in get_upstream_tasks(task_id)], as a set
UpstreamIds(g, id) == {TaskIdOf(t) : t \in get_upstream_tasks(g, Str(id))}

\* [d.task_id for d in get_downstream_tasks(task_id)], as a set
DownstreamIds(g, id) == {TaskIdOf(t) : t \in get_downstream_tasks(g, Str(id))}

\* FlowGraph.get_root_tasks, as ids in iteration order
get_root_tasks(g) ==
    LET target_ids == {g.edges[i].target_id : i \in DOMAIN g.edges}
    IN  SelectSeq(TaskOrder(g), LAMBDA id : id \notin target_ids)

\* FlowGraph.get_leaf_tasks, as ids in iteration order
get_leaf_tasks(g) ==
    LET source_ids == {g.edges[i].source_id : i \in DOMAIN g.edges}
    IN  SelectSeq(TaskOrder(g), LAMBDA id : id \notin source_ids)

(***************************************************************************)
(* DependencyResolver (graph/builder.py)                                   *)
(***************************************************************************)
CurrentLayerAnyUpstream(g, processed) ==
    SelectSeq(TaskOrder(g), LAMBDA id :
        /\ id \notin processed
        /\ \/ UpstreamIds(g, id) = {}
           \/ \E u \in UpstreamIds(g, id) : u \in processed)

\* the for loop of get_execution_order: the tasks not yet processed all of
\* whose upstream tasks are processed, in iteration order
CurrentLayer(g, processed) ==
    SelectSeq(TaskOrder(g), LAMBDA id :
        /\ id \notin processed
        /\ \A u \in UpstreamIds(g, id) : u \in processed)

RECURSIVE ExecutionOrderLoopKeepsEmptyLayer(_, _, _)
ExecutionOrderLoopKeepsEmptyLayer(g, layers, processed) ==
    IF ~(Cardinality(processed) < Cardinality(TaskIds(g)))
    THEN layers
    ELSE LET current_layer == CurrentLayer(g, processed)
         IN  IF current_layer = <<>>
             THEN Append(layers, current_layer)
             ELSE ExecutionOrderLoopKeepsEmptyLayer(g,
                      Append(layers, current_layer),
                      processed \cup Range(current_layer))

RECURSIVE ExecutionOrderLoop(_, _, _)
\* the while loop of get_execution_order
ExecutionOrderLoop(g, layers, processed) ==
    IF ~(Cardinality(processed) < Cardinality(TaskIds(g)))
    THEN layers
    ELSE LET current_layer == CurrentLayer(g, processed)
         IN  IF current_layer = <<>>
             THEN layers
             ELSE ExecutionOrderLoop(g, Append(layers, current_layer),
                                     processed \cup Range(current_layer))

\* DependencyResolver.get_execution_order
get_execution_order(g) == ExecutionOrderLoop(g, <<>>, {})

\* memo[task_id] = length
MemoPut(memo, task_id, length) ==
    [i \in DOMAIN memo \cup {task_id} |->
        IF i = task_id THEN length ELSE memo[i]]

RECURSIVE longest_path_from(_, _, _, _)
RECURSIVE LongestOver(_, _, _, _, _)
\* longest_path_from of find_critical_path, with its memo threaded through.
\* depth counts the frames of the recursion: more frames than tasks means a
\* task is met again on the current chain before it is memoized, so the
\* recursion never ends and Python raises RecursionError (overflow).
longest_path_from(g, task_id, memo, depth) ==
    IF task_id \in DOMAIN memo
    THEN [length |-> memo[task_id], memo |-> memo, overflow |-> FALSE]
    ELSE IF depth > Cardinality(TaskIds(g))
    THEN [length |-> 0, memo |-> memo, overflow |-> TRUE]
    ELSE LET downstream_ids == AscSeq(DownstreamIds(g, task_id))
         IN  IF downstream_ids = <<>>
             THEN [length |-> 1, memo |-> MemoPut(memo, task_id, 1),
                   overflow |-> FALSE]
             ELSE LET r == LongestOver(g, downstream_ids, memo, depth + 1, 0)
                  IN  IF r.overflow
                      THEN r
                      ELSE [length |-> 1 + r.length,
                            memo |-> MemoPut(r.memo, task_id, 1 + r.length),
                            overflow |-> FALSE]

\* max(longest_path_from(d_id) for d_id in downstream_ids)
LongestOver(g, ids, memo, depth, best) ==
    IF ids = <<>>
    THEN [length |-> best, memo |-> memo, overflow |-> FALSE]
    ELSE LET r == longest_path_from(g, Head(ids), memo, depth)
         IN  IF r.overflow
             THEN r
             ELSE LongestOver(g, Tail(ids), r.memo, depth,
                              IF r.length > best THEN r.length ELSE best)

RECURSIVE FindStart(_, _, _, _, _)
\* the loop over the root tasks: the first root of the greatest length
FindStart(g, roots, memo, max_length, start_task) ==
    IF roots = <<>>
    THEN [start_task |-> start_task, memo |-> memo, overflow |-> FALSE]
    ELSE LET r == longest_path_from(g, Head(roots), memo, 1)
         IN  IF r.overflow
             THEN [start_task |-> start_task, memo |-> memo, overflow |-> TRUE]
             ELSE IF r.length > max_length
             THEN FindStart(g, Tail(roots), r.memo, r.length, Head(roots))
             ELSE FindStart(g, Tail(roots), r.memo, max_length, start_task)

\* memo.get(t_id, 0)
MemoGet(memo, id) == IF id \in DOMAIN memo THEN memo[id] ELSE 0

NextTasksAny(g, memo, current) == DownstreamIds(g, current)

\* max(downstream_ids, key=...): the list comes from a set, so any
\* downstream task of the greatest memoized length may be the one chosen
NextTasks(g, memo, current) ==
    LET ds == DownstreamIds(g, current)
    IN  {d \in ds : \A e \in ds : MemoGet(memo, e) <= MemoGet(memo, d)}

RECURSIVE ReconstructPath(_, _, _)
\* the paths the reconstruction loop can produce from current
ReconstructPath(g, memo, current) ==
    IF DownstreamIds(g, current) = {}
    THEN {<<current>>}
    ELSE UNION {{<<current>> \o p : p \in ReconstructPath(g, memo, d)} :
                  d \in NextTasks(g, memo, current)}

\* DependencyResolver.find_critical_path: the exception it raises, if any,
\* and the paths it can return.  start_task = 0 is None.
find_critical_path(g) ==
    LET s == FindStart(g, get_root_tasks(g), <<>>, 0, 0)
    IN  IF s.overflow
        THEN [raised |-> "RecursionError", paths |-> {}]
        ELSE IF s.start_task = 0
        THEN [raised |-> "none", paths |-> {<<>>}]
        ELSE [raised |-> "none",
              paths |-> ReconstructPath(g, s.memo, s.start_task)]

RECURSIVE depth_from_counts_revisit(_, _, _)
depth_from_counts_revisit(g, tid, visited) ==
    IF tid \in visited
    THEN 1
    ELSE LET upstream == UpstreamIds(g, tid)
         IN  IF upstream = {}
             THEN 0
             ELSE 1 + Max({depth_from_counts_revisit(g, u, visited \cup {tid}) :
                             u \in upstream})

RECURSIVE depth_from_without_increment(_, _, _)
depth_from_without_increment(g, tid, visited) ==
    IF tid \in visited
    THEN 0
    ELSE LET upstream == UpstreamIds(g, tid)
         IN  IF upstream = {}
             THEN 0
             ELSE Max({depth_from_without_increment(g, u, visited \cup {tid}) :
                         u \in upstream})

RECURSIVE depth_from(_, _, _)
\* depth_from of get_dependency_depth
depth_from(g, tid, visited) ==
    IF tid \in visited
    THEN 0
    ELSE LET upstream == UpstreamIds(g, tid)
         IN  IF upstream = {}
             THEN 0
             ELSE 1 + Max({depth_from(g, u, visited \cup {tid}) :
                             u \in upstream})

get_dependency_depth_counts_tasks(g, task_id) == 1 + depth_from(g, task_id, {})

\* DependencyResolver.get_dependency_depth
get_dependency_depth(g, task_id) == depth_from(g, task_id, {})

(***************************************************************************)
(* GraphValidator (graph/builder.py)                                       *)
(***************************************************************************)
\* an entry of an errors or warnings list: its text and what it names
Msg(text, arg) == [msg |-> text, arg |-> arg]

Msgs(list) == {list[i].msg : i \in DOMAIN list}

\* the list of a set of tagged values, in ascending id order
ListOf(S) ==
    LET ids == AscSeq({x[2] : x \in S})
    IN  [i \in DOMAIN ids |-> CHOOSE y \in S : y[2] = ids[i]]

DfsState(visited, rec_stack) == [visited |-> visited, rec_stack |-> rec_stack]

DfsFound(st) == [found |-> TRUE, visited |-> st.visited,
                 rec_stack |-> st.rec_stack]

RECURSIVE validator_dfs(_, _, _)
RECURSIVE ValidatorDfsFor(_, _, _, _)
\* dfs of GraphValidator._has_cycles; task_id is a str
validator_dfs(g, task_id, st) ==
    ValidatorDfsFor(g, task_id, ListOf(get_downstream_tasks(g, task_id)),
                    DfsState(st.visited \cup {task_id},
                             st.rec_stack \cup {task_id}))

\* the for loop of dfs over downstream_tasks, and what follows it
ValidatorDfsFor(g, task_id, downstream_tasks, st) ==
    IF downstream_tasks = <<>>
    THEN [found |-> FALSE, visited |-> st.visited,
          rec_stack |-> st.rec_stack \ {task_id}]
    ELSE LET downstream_id == Str(TaskIdOf(Head(downstream_tasks)))
         IN  IF downstream_id \notin st.visited
             THEN LET r == validator_dfs(g, downstream_id, st)
                  IN  IF r.found
                      THEN r
                      ELSE ValidatorDfsFor(g, task_id, Tail(downstream_tasks),
                                           DfsState(r.visited, r.rec_stack))
             ELSE IF downstream_id \in st.rec_stack
             THEN DfsFound(st)
             ELSE ValidatorDfsFor(g, task_id, Tail(downstream_tasks), st)

RECURSIVE ValidatorCycleLoop(_, _, _)
\* the loop of _has_cycles over self.graph.tasks
ValidatorCycleLoop(g, task_ids, st) ==
    IF task_ids = <<>>
    THEN FALSE
    ELSE IF Str(Head(task_ids)) \notin st.visited
    THEN LET r == validator_dfs(g, Str(Head(task_ids)), st)
         IN  IF r.found
             THEN TRUE
             ELSE ValidatorCycleLoop(g, Tail(task_ids),
                                     DfsState(r.visited, r.rec_stack))
    ELSE ValidatorCycleLoop(g, Tail(task_ids), st)

has_cycles_ignores_self_loops(g) ==
    ValidatorCycleLoop(
        [g EXCEPT !.edges = SelectSeq(g.edges, LAMBDA e :
                                          e.source_id # e.target_id)],
        TaskOrder(g), DfsState({}, {}))

\* GraphValidator._has_cycles
has_cycles(g) == ValidatorCycleLoop(g, TaskOrder(g), DfsState({}, {}))

RECURSIVE ValidateEdgesLoop(_, _)
\* the loop of _validate_edges over self.graph.edges
ValidateEdgesLoop(g, es) ==
    IF es = <<>>
    THEN <<>>
    ELSE (IF Head(es).source_id \notin TaskIds(g)
          THEN <<Msg("Edge references non-existent source",
                     Head(es).source_id)>>
          ELSE <<>>)
         \o (IF Head(es).target_id \notin TaskIds(g)
             THEN <<Msg("Edge references non-existent target",
                        Head(es).target_id)>>
             ELSE <<>>)
         \o ValidateEdgesLoop(g, Tail(es))

\* GraphValidator._validate_edges
validate_edges(g) == ValidateEdgesLoop(g, g.edges)

\* GraphValidator._find_isolated_tasks
find_isolated_tasks(g) ==
    SelectSeq(TaskOrder(g), LAMBDA id :
        /\ get_upstream_tasks(g, Str(id)) = {}
        /\ get_downstream_tasks(g, Str(id)) = {})

\* the undirected adjacency of _find_disconnected_components
Adjacency(g) ==
    [id \in TaskIds(g) |->
        {g.edges[i].target_id :
            i \in {j \in DOMAIN g.edges :
                      /\ g.edges[j].source_id = id
                      /\ g.edges[j].target_id \in TaskIds(g)}}
        \cup
        {g.edges[i].source_id :
            i \in {j \in DOMAIN g.edges :
                      /\ g.edges[j].target_id = id
                      /\ g.edges[j].source_id \in TaskIds(g)}}]

RECURSIVE BfsLoop(_, _, _, _)
\* the while loop of bfs: the component and the visited set it leaves
BfsLoop(adjacency, q, visited, comp) ==
    IF q = <<>>
    THEN [comp |-> comp, visited |-> visited]
    ELSE LET cur == Head(q)
             fresh == adjacency[cur] \ visited
         IN  BfsLoop(adjacency, Tail(q) \o AscSeq(fresh),
                     visited \cup fresh, Append(comp, cur))

RECURSIVE ComponentsLoop(_, _, _, _)
\* the loop over self.graph.tasks that collects the components
ComponentsLoop(adjacency, task_ids, visited, components) ==
    IF task_ids = <<>>
    THEN components
    ELSE IF Head(task_ids) \notin visited
    THEN LET r == BfsLoop(adjacency, <<Head(task_ids)>>,
                          visited \cup {Head(task_ids)}, <<>>)
         IN  ComponentsLoop(adjacency, Tail(task_ids), r.visited,
                            Append(components, r.comp))
    ELSE ComponentsLoop(adjacency, Tail(task_ids), visited, components)

PrimaryIndexFirstFound(components) == 1

\* max(components, key=len): the index of the first component of the
\* greatest length
PrimaryIndex(components) ==
    Min({i \in DOMAIN components :
            \A j \in DOMAIN components :
                Len(components[j]) <= Len(components[i])})

\* GraphValidator._find_disconnected_components
find_disconnected_components(g) ==
    IF TaskIds(g) = {}
    THEN <<>>
    ELSE LET components == ComponentsLoop(Adjacency(g), TaskOrder(g), {}, <<>>)
         IN  IF Len(components) <= 1
             THEN <<>>
             ELSE LET primary == PrimaryIndex(components)
                      kept == SelectSeq([i \in DOMAIN components |-> i],
                                        LAMBDA i : i # primary)
                  IN  [k \in DOMAIN kept |-> components[kept[k]]]

RECURSIVE Flatten(_)
Flatten(ss) == IF ss = <<>> THEN <<>> ELSE Head(ss) \o Flatten(Tail(ss))

\* GraphValidator._find_unreachable_tasks
find_unreachable_tasks(g) ==
    IF TaskIds(g) = {}
    THEN <<>>
    ELSE Flatten(find_disconnected_components(g))

\* GraphValidator._validate_task_ids: an empty id would be the id 0, and a
\* dict holds no key twice
validate_task_ids(g) ==
    LET ids == TaskOrder(g)
    IN  Flatten([i \in DOMAIN ids |->
                    IF ids[i] = 0 THEN <<Msg("Empty task ID found", ids[i])>>
                    ELSE <<>>])

validate_isolated_as_errors(g) ==
    IF TaskIds(g) = {}
    THEN [is_valid |-> FALSE,
          errors |-> <<Msg("Graph has no tasks", <<>>)>>,
          warnings |-> <<>>]
    ELSE LET edge_errors == validate_edges(g)
             isolated == find_isolated_tasks(g)
             isolated_warnings ==
                 IF isolated # <<>>
                 THEN <<Msg("Isolated tasks", isolated)>> ELSE <<>>
             cycle_errors ==
                 IF has_cycles(g)
                 THEN <<Msg("Graph contains cycles", <<>>)>> ELSE <<>>
             unreachable == find_unreachable_tasks(g)
             components == find_disconnected_components(g)
             unreachable_warnings ==
                 IF unreachable # <<>>
                 THEN <<Msg("Unreachable tasks", unreachable)>>
                      \o [i \in DOMAIN components |->
                             Msg("Disconnected component",
                                 [size |-> Len(components[i]),
                                  head |-> components[i][1],
                                  members |-> components[i]])]
                 ELSE <<>>
             invalid_ids == validate_task_ids(g)
             errors == edge_errors \o isolated_warnings \o cycle_errors
                           \o invalid_ids
         IN  [is_valid |-> Len(errors) = 0,
              errors |-> errors,
              warnings |-> isolated_warnings \o unreachable_warnings]

\* GraphValidator.validate
validate(g) ==
    IF TaskIds(g) = {}
    THEN [is_valid |-> FALSE,
          errors |-> <<Msg("Graph has no tasks", <<>>)>>,
          warnings |-> <<>>]
    ELSE LET edge_errors == validate_edges(g)
             isolated == find_isolated_tasks(g)
             isolated_warnings ==
                 IF isolated # <<>>
                 THEN <<Msg("Isolated tasks", isolated)>> ELSE <<>>
             cycle_errors ==
                 IF has_cycles(g)
                 THEN <<Msg("Graph contains cycles", <<>>)>> ELSE <<>>
             unreachable == find_unreachable_tasks(g)
             components == find_disconnected_components(g)
             unreachable_warnings ==
                 IF unreachable # <<>>
                 THEN <<Msg("Unreachable tasks", unreachable)>>
                      \o [i \in DOMAIN components |->
                             Msg("Disconnected component",
                                 [size |-> Len(components[i]),
                                  head |-> components[i][1],
                                  members |-> components[i]])]
                 ELSE <<>>
             invalid_ids == validate_task_ids(g)
             errors == edge_errors \o cycle_errors \o invalid_ids
         IN  [is_valid |-> Len(errors) = 0,
              errors |-> errors,
              warnings |-> isolated_warnings \o unreachable_warnings]

(***************************************************************************)
(* GraphBuilder (graph/builder.py)                                         *)
(***************************************************************************)
\* GraphBuildResult
GraphBuildResult(g, success, errors, warnings, metadata) ==
    [graph |-> g, success |-> success, errors |-> errors,
     warnings |-> warnings, metadata |-> metadata]

\* metadata = {}
EmptyMetadata == <<>>

\* the failed result of build(): a fresh empty graph named "unknown"
FailedResult(errors, warnings) ==
    GraphBuildResult(FlowGraph("unknown"), FALSE, errors, warnings,
                     EmptyMetadata)

RECURSIVE ParseYamlLoop(_, _, _)
\* the loop of _parse_yaml_files over the files found; st holds errors,
\* warnings and the number of entries of self.yaml_analyses.  A file is what
\* parsing it gives: "ok", "errors", "warnings", or "raise" when YAMLParser
\* raises.
ParseYamlLoop(files, k, st) ==
    IF k > Len(files)
    THEN st
    ELSE ParseYamlLoop(files, k + 1,
            CASE files[k] = "raise" ->
                   [st EXCEPT !.warnings =
                       Append(@, Msg("Failed to parse", k))]
              [] files[k] = "errors" ->
                   [st EXCEPT !.errors = Append(@, Msg("yaml error", k)),
                              !.yaml_analyses = @ + 1]
              [] files[k] = "warnings" ->
                   [st EXCEPT !.warnings = Append(@, Msg("yaml warning", k)),
                              !.yaml_analyses = @ + 1]
              [] OTHER -> [st EXCEPT !.yaml_analyses = @ + 1])

\* GraphBuilder._parse_yaml_files
parse_yaml_files(files, errors, warnings) ==
    ParseYamlLoop(files, 1, [errors |-> errors, warnings |-> warnings,
                             yaml_analyses |-> 0])

RECURSIVE AddTasksLoop(_, _, _)
\* the first loop of _build_graph_from_analysis
AddTasksLoop(tasks, g, errors) ==
    IF tasks = <<>>
    THEN [graph |-> g, errors |-> errors]
    ELSE LET r == add_task(g, Head(tasks))
         IN  AddTasksLoop(Tail(tasks), r.graph,
                 IF r.raised # "none"
                 THEN Append(errors,
                             Msg("Failed to add task", Head(tasks).task_id))
                 ELSE errors)

RECURSIVE AddEdgesLoop(_, _, _)
\* the second loop of _build_graph_from_analysis
AddEdgesLoop(edges, g, warnings) ==
    IF edges = <<>>
    THEN [graph |-> g, warnings |-> warnings]
    ELSE LET r == add_edge(g, Head(edges))
         IN  AddEdgesLoop(Tail(edges), r.graph,
                 IF r.raised # "none"
                 THEN Append(warnings,
                             Msg("Failed to add edge",
                                 <<Head(edges).source_id,
                                   Head(edges).target_id>>))
                 ELSE warnings)

\* GraphBuilder._build_graph_from_analysis
build_graph_from_analysis(analysis, errors, warnings) ==
    LET t == AddTasksLoop(analysis.tasks, FlowGraph(analysis.object_name),
                          errors)
        e == AddEdgesLoop(analysis.edges, t.graph, warnings)
    IN  [graph |-> e.graph, errors |-> t.errors, warnings |-> e.warnings]

MappingTypes == {"Mapping", "MapToSchema", "TransformMap"}

CreateTypes == {"CreateObjects", "CreateVeevaObjects"}

ReportTypes == {"GenerateReport", "Report", "ExportReport"}

\* [t for t in self.graph.tasks.values() if t.task_type in types], as ids
TasksOfType(g, types) ==
    SelectSeq(TaskOrder(g), LAMBDA id : g.tasks[id].task_type \in types)

LinkAnyCandidates(st, sources, targets, label, warning) ==
    IF Len(sources) >= 1 /\ Len(targets) >= 1
    THEN LET a == sources[1]
             b == targets[1]
         IN  IF ~\E i \in DOMAIN st.graph.edges :
                    /\ st.graph.edges[i].source_id = a
                    /\ st.graph.edges[i].target_id = b
             THEN LET r == add_edge(st.graph, Edge(a, b, label, "dependency"))
                  IN  IF r.raised = "none"
                      THEN [graph |-> r.graph,
                            warnings |-> Append(st.warnings, Msg(warning, <<>>))]
                      ELSE st
             ELSE st
    ELSE st

\* one of the two blocks of _link_known_terminal_chain: link the only task
\* of the sources to the only task of the targets unless an edge does
LinkUnique(st, sources, targets, label, warning) ==
    IF Len(sources) = 1 /\ Len(targets) = 1
    THEN LET a == sources[1]
             b == targets[1]
         IN  IF ~\E i \in DOMAIN st.graph.edges :
                    /\ st.graph.edges[i].source_id = a
                    /\ st.graph.edges[i].target_id = b
             THEN LET r == add_edge(st.graph, Edge(a, b, label, "dependency"))
                  IN  IF r.raised = "none"
                      THEN [graph |-> r.graph,
                            warnings |-> Append(st.warnings, Msg(warning, <<>>))]
                      ELSE st
             ELSE st
    ELSE st

\* GraphBuilder._link_known_terminal_chain
link_known_terminal_chain(g, warnings) ==
    LET mapping_tasks == TasksOfType(g, MappingTypes)
        create_tasks == TasksOfType(g, CreateTypes)
        report_tasks == TasksOfType(g, ReportTypes)
        first == LinkUnique([graph |-> g, warnings |-> warnings],
                            mapping_tasks, create_tasks, "CreateObjects",
                            "Linked Mapping -> CreateObjects (auto)")
    IN  LinkUnique(first, create_tasks, report_tasks, "GenerateReport",
                   "Linked CreateObjects -> GenerateReport (auto)")

RECURSIVE builder_dfs(_, _, _)
RECURSIVE BuilderDfsFor(_, _, _, _)
\* dfs of GraphBuilder._has_cycle; task_id is the value dfs is called with
builder_dfs(g, task_id, st) ==
    BuilderDfsFor(g, task_id, ListOf(get_downstream_tasks(g, task_id)),
                  DfsState(st.visited \cup {task_id},
                           st.rec_stack \cup {task_id}))

\* the for loop of dfs over get_downstream_tasks(task_id), whose elements are
\* Task objects, and what follows it
BuilderDfsFor(g, task_id, downstream_tasks, st) ==
    IF downstream_tasks = <<>>
    THEN [found |-> FALSE, visited |-> st.visited,
          rec_stack |-> st.rec_stack \ {task_id}]
    ELSE LET downstream_id == Head(downstream_tasks)
         IN  IF downstream_id \notin st.visited
             THEN LET r == builder_dfs(g, downstream_id, st)
                  IN  IF r.found
                      THEN r
                      ELSE BuilderDfsFor(g, task_id, Tail(downstream_tasks),
                                         DfsState(r.visited, r.rec_stack))
             ELSE IF downstream_id \in st.rec_stack
             THEN DfsFound(st)
             ELSE BuilderDfsFor(g, task_id, Tail(downstream_tasks), st)

RECURSIVE BuilderCycleLoop(_, _, _)
\* the loop of _has_cycle over self.graph.tasks
BuilderCycleLoop(g, task_ids, st) ==
    IF task_ids = <<>>
    THEN FALSE
    ELSE IF Str(Head(task_ids)) \notin st.visited
    THEN LET r == builder_dfs(g, Str(Head(task_ids)), st)
         IN  IF r.found
             THEN TRUE
             ELSE BuilderCycleLoop(g, Tail(task_ids),
                                   DfsState(r.visited, r.rec_stack))
    ELSE BuilderCycleLoop(g, Tail(task_ids), st)

\* GraphBuilder._has_cycle
has_cycle(g) == BuilderCycleLoop(g, TaskOrder(g), DfsState({}, {}))

\* GraphBuilder._validate_graph
validate_graph(g) ==
    LET isolated == SelectSeq(TaskOrder(g), LAMBDA id :
                        /\ get_upstream_tasks(g, Str(id)) = {}
                        /\ get_downstream_tasks(g, Str(id)) = {})
    IN  (IF isolated # <<>>
         THEN <<Msg("Isolated tasks found", isolated)>> ELSE <<>>)
        \o (IF has_cycle(g)
            THEN <<Msg("Circular dependencies detected in flow", <<>>)>>
            ELSE <<>>)

build_success_ignores_yaml(in) ==
    IF in.fault = "invalid_path"
    THEN FailedResult(<<Msg("Invalid object path", <<>>)>>, <<>>)
    ELSE IF in.fault \in {"locate_creation_flow", "ASTPythonParser"}
    THEN FailedResult(<<Msg("Unexpected error", in.fault)>>, <<>>)
    ELSE
    LET errors1 == in.analysis.errors
        warnings1 == in.analysis.warnings
    IN  IF in.fault = "find_all_yaml_files"
        THEN FailedResult(Append(errors1, Msg("Unexpected error", in.fault)),
                          warnings1)
        ELSE
        LET y == parse_yaml_files(in.yaml_files, errors1, warnings1)
            b == build_graph_from_analysis(in.analysis, y.errors, y.warnings)
        IN  IF in.fault = "enrich_graph_with_yaml"
            THEN FailedResult(
                     Append(b.errors, Msg("Unexpected error", in.fault)),
                     b.warnings)
            ELSE
            LET l == link_known_terminal_chain(b.graph, b.warnings)
                validation_errors == validate_graph(l.graph)
                errors == b.errors \o validation_errors
                success == Len(errors1 \o validation_errors) = 0
            IN  GraphBuildResult(l.graph, success, errors, l.warnings,
                    [object_name |-> in.analysis.object_name,
                     task_count |-> Cardinality(TaskIds(l.graph)),
                     edge_count |-> Len(l.graph.edges),
                     yaml_files_parsed |-> y.yaml_analyses])

build_keeps_graph_on_error(in) ==
    IF in.fault = "invalid_path"
    THEN FailedResult(<<Msg("Invalid object path", <<>>)>>, <<>>)
    ELSE IF in.fault \in {"locate_creation_flow", "ASTPythonParser"}
    THEN FailedResult(<<Msg("Unexpected error", in.fault)>>, <<>>)
    ELSE
    LET errors1 == in.analysis.errors
        warnings1 == in.analysis.warnings
    IN  IF in.fault = "find_all_yaml_files"
        THEN FailedResult(Append(errors1, Msg("Unexpected error", in.fault)),
                          warnings1)
        ELSE
        LET y == parse_yaml_files(in.yaml_files, errors1, warnings1)
            b == build_graph_from_analysis(in.analysis, y.errors, y.warnings)
        IN  IF in.fault = "enrich_graph_with_yaml"
            THEN GraphBuildResult(b.graph, FALSE,
                     Append(b.errors, Msg("Unexpected error", in.fault)),
                     b.warnings, EmptyMetadata)
            ELSE
            LET l == link_known_terminal_chain(b.graph, b.warnings)
                validation_errors == validate_graph(l.graph)
                errors == b.errors \o validation_errors
                success == Len(errors) = 0
            IN  GraphBuildResult(l.graph, success, errors, l.warnings,
                    [object_name |-> in.analysis.object_name,
                     task_count |-> Cardinality(TaskIds(l.graph)),
                     edge_count |-> Len(l.graph.edges),
                     yaml_files_parsed |-> y.yaml_analyses])

build_metadata_from_analysis(analysis, g, yaml_analyses) ==
    [object_name |-> analysis.object_name,
     task_count |-> Len(analysis.tasks),
     edge_count |-> Len(analysis.edges),
     yaml_files_parsed |-> yaml_analyses]

\* the metadata dict build() fills in before its normal return
build_metadata(analysis, g, yaml_analyses) ==
    [object_name |-> analysis.object_name,
     task_count |-> Cardinality(TaskIds(g)),
     edge_count |-> Len(g.edges),
     yaml_files_parsed |-> yaml_analyses]

build_validates_before_linking(in) ==
    IF in.fault = "invalid_path"
    THEN FailedResult(<<Msg("Invalid object path", <<>>)>>, <<>>)
    ELSE IF in.fault \in {"locate_creation_flow", "ASTPythonParser"}
    THEN FailedResult(<<Msg("Unexpected error", in.fault)>>, <<>>)
    ELSE
    LET errors1 == in.analysis.errors
        warnings1 == in.analysis.warnings
    IN  IF in.fault = "find_all_yaml_files"
        THEN FailedResult(Append(errors1, Msg("Unexpected error", in.fault)),
                          warnings1)
        ELSE
        LET y == parse_yaml_files(in.yaml_files, errors1, warnings1)
            b == build_graph_from_analysis(in.analysis, y.errors, y.warnings)
        IN  IF in.fault = "enrich_graph_with_yaml"
            THEN FailedResult(
                     Append(b.errors, Msg("Unexpected error", in.fault)),
                     b.warnings)
            ELSE
            LET l == link_known_terminal_chain(b.graph, b.warnings)
                validation_errors == validate_graph(b.graph)
                errors == b.errors \o validation_errors
                success == Len(errors) = 0
            IN  GraphBuildResult(l.graph, success, errors, l.warnings,
                    build_metadata(in.analysis, l.graph, y.yaml_analyses))

\* GraphBuilder.build.  in.fault names what goes wrong, if anything:
\*   "invalid_path": FileLocator(object_path) raised in __init__, so
\*       self.locator_error is set;
\*   "locate_creation_flow": creation_flow.py is missing, and
\*       locate_creation_flow raises FileNotFoundError (it never returns a
\*       false value, so the "creation_flow.py not found" branch is dead);
\*   "ASTPythonParser": the parser's constructor raises;
\*   "find_all_yaml_files": listing the YAML files raises;
\*   "enrich_graph_with_yaml": _enrich_graph_with_yaml raises;
\*   "none": nothing raises out of a step.
\* Every exception inside the try block ends in the except clause.
build(in) ==
    IF in.fault = "invalid_path"
    THEN FailedResult(<<Msg("Invalid object path", <<>>)>>, <<>>)
    ELSE IF in.fault \in {"locate_creation_flow", "ASTPythonParser"}
    THEN FailedResult(<<Msg("Unexpected error", in.fault)>>, <<>>)
    ELSE
    LET errors1 == in.analysis.errors
        warnings1 == in.analysis.warnings
    IN  IF in.fault = "find_all_yaml_files"
        THEN FailedResult(Append(errors1, Msg("Unexpected error", in.fault)),
                          warnings1)
        ELSE
        LET y == parse_yaml_files(in.yaml_files, errors1, warnings1)
            b == build_graph_from_analysis(in.analysis, y.errors, y.warnings)
        IN  IF in.fault = "enrich_graph_with_yaml"
            THEN FailedResult(
                     Append(b.errors, Msg("Unexpected error", in.fault)),
                     b.warnings)
            ELSE
            LET l == link_known_terminal_chain(b.graph, b.warnings)
                validation_errors == validate_graph(l.graph)
                errors == b.errors \o validation_errors
                success == Len(errors) = 0
            IN  GraphBuildResult(l.graph, success, errors, l.warnings,
                    build_metadata(in.analysis, l.graph, y.yaml_analyses))

(***************************************************************************)
(* Inputs of the FlowGraph calls                                           *)
(***************************************************************************)
Ids == 1 .. MaxIds

TaskTypesSmall == {"ReadExcel", "Filter"}

\* the two kinds of edge the parser and the builder construct
EdgeVariants == {[label |-> "None", edge_type |-> "dependency"],
                 [label |-> "CreateObjects", edge_type |-> "data_dependency"]}

NoCall == [op |-> "none"]

NoRet == [raised |-> "none", value |-> "None"]

(***************************************************************************)
(* Specification Spec: a FlowGraph under add_task and add_edge calls       *)
(***************************************************************************)
Init ==
    /\ config_cache = EmptyDict
    /\ config_dir = EmptyDict
    /\ graph = FlowGraph("test_obj")
    /\ call = NoCall
    /\ ret = NoRet

AddTask(task) ==
    LET r == add_task(graph, task)
    IN  /\ TaskIds(r.graph) \subseteq Ids
        /\ graph' = r.graph
        /\ UNCHANGED <<config_cache, config_dir>>
        /\ call' = [op |-> "add_task", task |-> task]
        /\ ret' = [raised |-> r.raised, value |-> "None"]

AddEdge(edge) ==
    LET r == add_edge(graph, edge)
    IN  /\ Len(r.graph.edges) <= MaxEdges
        /\ graph' = r.graph
        /\ UNCHANGED <<config_cache, config_dir>>
        /\ call' = [op |-> "add_edge", edge |-> edge]
        /\ ret' = [raised |-> r.raised, value |-> "None"]

NextAddTask == \E id \in Ids, type \in TaskTypesSmall : AddTask(Task(id, type))

NextAddEdge ==
    \E s \in Ids, t \in Ids, v \in EdgeVariants :
        AddEdge(Edge(s, t, v.label, v.edge_type))

Next == NextAddTask \/ NextAddEdge

Spec == Init /\ [][Next]_vars

(***************************************************************************)
(* Claims about FlowGraph.add_task / FlowGraph.add_edge (under Spec)       *)
(***************************************************************************)
\* C1: after any sequence of add_task and add_edge calls, successful or
\* failing, every edge of the edge sequence has its source_id and its
\* target_id among the keys of the task mapping.
C1_EdgeEndpointsExist ==
    \A i \in DOMAIN graph.edges :
        /\ graph.edges[i].source_id \in TaskIds(graph)
        /\ graph.edges[i].target_id \in TaskIds(graph)

\* an edge is stored and the last call was a rejected add_edge
C1_Witness ==
    /\ graph.edges # <<>>
    /\ call.op = "add_edge"
    /\ ret.raised = "ValueError"

\* the call that produced the next state is an add_task of an id that the
\* graph already holds
DuplicateTaskCall ==
    /\ call'.op = "add_task"
    /\ call'.task.task_id \in TaskIds(graph)

\* the call that produced the next state is an add_edge with an endpoint
\* that is no key of the task mapping
DanglingEdgeCall ==
    /\ call'.op = "add_edge"
    /\ \/ call'.edge.source_id \notin TaskIds(graph)
       \/ call'.edge.target_id \notin TaskIds(graph)

\* C2: a rejected insertion fails and changes nothing: add_task of an id
\* already present raises and keeps the stored task, add_edge with an absent
\* endpoint raises, and whenever a call raises, the task mapping and the edge
\* sequence are what they were before the call.
C2_RejectedInsertionChangesNothing ==
    [][/\ DuplicateTaskCall => (ret'.raised = "ValueError" /\ graph' = graph)
       /\ DanglingEdgeCall => (ret'.raised = "ValueError" /\ graph' = graph)
       /\ ret'.raised # "none" => graph' = graph]_vars

\* add_task was rejected for a task that differs from the one stored under
\* its id, and the stored one is still there
C2_Witness ==
    /\ call.op = "add_task"
    /\ ret.raised = "ValueError"
    /\ call.task.task_id \in TaskIds(graph)
    /\ graph.tasks[call.task.task_id] # call.task

\* the call that produced the next state is an add_edge of a pair that the
\* edge sequence already holds
DuplicateEdgeCall ==
    /\ call'.op = "add_edge"
    /\ \E i \in DOMAIN graph.edges : EdgeEq(call'.edge, graph.edges[i])

NoDuplicatePairs ==
    \A i, j \in DOMAIN graph.edges :
        EdgeEq(graph.edges[i], graph.edges[j]) => i = j

\* C3: adding an edge whose (source_id, target_id) pair is already in the
\* graph raises nothing and leaves the edge sequence as it was (length, order,
\* the first-inserted label and edge_type), and the edge sequence never holds
\* two edges with the same pair.
C3_DuplicateEdgeIsNoOp ==
    /\ []NoDuplicatePairs
    /\ [][DuplicateEdgeCall =>
            (ret'.raised = "none" /\ graph'.edges = graph.edges)]_vars

\* the last call added a pair that was already stored, with another label,
\* and the stored edge kept its own label
C3_Witness ==
    /\ call.op = "add_edge"
    /\ ret.raised = "none"
    /\ Len(graph.edges) = MaxEdges
    /\ \E i \in DOMAIN graph.edges :
          /\ EdgeEq(call.edge, graph.edges[i])
          /\ graph.edges[i].label # call.edge.label
          /\ graph.edges[i].edge_type # call.edge.edge_type

(***************************************************************************)
(* Specification SpecAnalysis: the analyses of DependencyResolver and      *)
(* GraphValidator applied to a graph that add_task and add_edge built.     *)
(* The graphs are drawn up to the naming of the tasks (the ids 1..n in     *)
(* insertion order) and with the edges in one order per edge set: the      *)
(* analyses read the edges through get_upstream_tasks and                  *)
(* get_downstream_tasks, which collect them into sets.  The analyses leave  *)
(* the graph as it is, so a behaviour applies one of them to its graph.    *)
(***************************************************************************)
\* the k-th pair over the ids 1..n, k in 0..n*n-1
PairAt(n, k) == <<(k \div n) + 1, (k % n) + 1>>

RECURSIVE PairLists(_, _, _)
\* the ascending lists of at most k pair numbers, each at least lo
PairLists(n, lo, k) ==
    IF k = 0
    THEN {<<>>}
    ELSE {<<>>} \cup
         UNION {{<<i>> \o l : l \in PairLists(n, i + 1, k - 1)} :
                   i \in lo .. (n * n - 1)}

\* the graph add_task(1..n) and add_edge(the pairs of l, in order) build
BuiltGraph(n, l) ==
    [object_name |-> "test",
     tasks |-> [i \in 1 .. n |-> Task(i, "Filter")],
     edges |-> [j \in DOMAIN l |->
                   Edge(PairAt(n, l[j])[1], PairAt(n, l[j])[2],
                        "None", "dependency")]]

InitAnalysis ==
    /\ config_cache = EmptyDict
    /\ config_dir = EmptyDict
    /\ \E n \in 0 .. NumTasks :
          \E l \in PairLists(n, 0, NumEdges) : graph = BuiltGraph(n, l)
    /\ call = NoCall
    /\ ret = NoRet

Validate ==
    /\ call = NoCall
    /\ graph' = graph
    /\ UNCHANGED <<config_cache, config_dir>>
    /\ call' = [op |-> "validate"]
    /\ ret' = [raised |-> "none", value |-> validate(graph)]

GetExecutionOrder ==
    /\ call = NoCall
    /\ graph' = graph
    /\ UNCHANGED <<config_cache, config_dir>>
    /\ call' = [op |-> "get_execution_order"]
    /\ ret' = [raised |-> "none", value |-> get_execution_order(graph)]

FindCriticalPath ==
    LET r == find_critical_path(graph)
    IN  /\ call = NoCall
        /\ graph' = graph
        /\ UNCHANGED <<config_cache, config_dir>>
        /\ call' = [op |-> "find_critical_path"]
        /\ IF r.raised # "none"
           THEN ret' = [raised |-> r.raised, value |-> "None"]
           ELSE \E path \in r.paths :
                    ret' = [raised |-> "none", value |-> path]

GetDependencyDepth ==
    \E task_id \in TaskIds(graph) :
        /\ call = NoCall
        /\ graph' = graph
        /\ UNCHANGED <<config_cache, config_dir>>
        /\ call' = [op |-> "get_dependency_depth", task_id |-> task_id]
        /\ ret' = [raised |-> "none",
                   value |-> get_dependency_depth(graph, task_id)]

NextAnalysis ==
    \/ Validate
    \/ GetExecutionOrder
    \/ FindCriticalPath
    \/ GetDependencyDepth

SpecAnalysis == InitAnalysis /\ [][NextAnalysis]_vars

(***************************************************************************)
(* Graph notions the claims are stated in                                  *)
(***************************************************************************)
EdgePairs(g) ==
    {<<g.edges[i].source_id, g.edges[i].target_id>> : i \in DOMAIN g.edges}

RECURSIVE TransitiveClosure(_)
TransitiveClosure(R) ==
    LET step == R \cup {<<x[1][1], x[2][2]>> :
                           x \in {y \in R \X R : y[1][2] = y[2][1]}}
    IN  IF step = R THEN R ELSE TransitiveClosure(step)

\* some task reaches itself along one or more edges
HasDirectedCycle(g) ==
    \E p \in TransitiveClosure(EdgePairs(g)) : p[1] = p[2]

RECURSIVE PathsFrom(_, _)
\* the paths given and every directed path of an acyclic graph extending one
PathsFrom(g, paths) ==
    LET next == {Append(x[1], x[2][2]) :
                    x \in {y \in paths \X EdgePairs(g) :
                              y[2][1] = y[1][Len(y[1])]}}
    IN  IF next = {} THEN paths ELSE paths \cup PathsFrom(g, next)

\* every directed path of an acyclic graph, as the list of its tasks
DirectedPaths(g) == PathsFrom(g, {<<id>> : id \in TaskIds(g)})

IsRoot(g, id) == \A p \in EdgePairs(g) : p[2] # id

IsLeaf(g, id) == \A p \in EdgePairs(g) : p[1] # id

\* the diamond A->B, B->C, B->D with A, B, C, D = 1, 2, 3, 4
IsDiamond(g) ==
    /\ TaskIds(g) = 1 .. 4
    /\ EdgePairs(g) = {<<1, 2>>, <<2, 3>>, <<2, 4>>}

Upstream(g, id) == {p[1] : p \in {q \in EdgePairs(g) : q[2] = id}}

\* the number of the layer that holds id, counted from 0
LayerOf(layers, id) ==
    Min({i \in DOMAIN layers : id \in Range(layers[i])}) - 1

(***************************************************************************)
(* Claims about the analyses (under SpecAnalysis)                          *)
(***************************************************************************)
\* C7: for every non-empty graph built with add_task/add_edge, validate()
\* returns is_valid false with an error about cycles if and only if the graph
\* has a directed cycle (a self-loop counts); for an acyclic graph it reports
\* no cycle error.
C7_ValidateReportsCycles ==
    (call.op = "validate" /\ TaskIds(graph) # {}) =>
        LET cycle_error ==
                "Graph contains cycles" \in Msgs(ret.value.errors)
        IN  /\ HasDirectedCycle(graph) <=>
                   (~ret.value.is_valid /\ cycle_error)
            /\ ~HasDirectedCycle(graph) => ~cycle_error

\* validate() ran on a graph holding the cycle 1->2->3->1 and a self-loop
C7_Witness ==
    /\ call.op = "validate"
    /\ EdgePairs(graph) = {<<1, 2>>, <<2, 3>>, <<3, 1>>, <<4, 4>>}
    /\ ~ret.value.is_valid

\* C8: for every acyclic graph get_execution_order() returns layers that
\* partition the task set (each task in exactly one layer, once; no empty
\* layer); a task is in layer 0 iff it has no upstream task and otherwise in
\* layer 1 + the greatest layer of its upstream tasks; so for every edge u->v
\* the layer of u precedes that of v; the diamond gives [A], [B], [C, D].
C8_ExecutionOrderLayers ==
    (call.op = "get_execution_order" /\ ~HasDirectedCycle(graph)) =>
        LET layers == ret.value
        IN  /\ \A i \in DOMAIN layers :
                  /\ layers[i] # <<>>
                  /\ Range(layers[i]) \subseteq TaskIds(graph)
                  /\ Cardinality(Range(layers[i])) = Len(layers[i])
            /\ \A id \in TaskIds(graph) :
                  Cardinality({i \in DOMAIN layers :
                                  id \in Range(layers[i])}) = 1
            /\ \A id \in TaskIds(graph) :
                  /\ LayerOf(layers, id) = 0 <=> Upstream(graph, id) = {}
                  /\ Upstream(graph, id) # {} =>
                        LayerOf(layers, id) =
                            1 + Max({LayerOf(layers, u) :
                                        u \in Upstream(graph, id)})
            /\ \A p \in EdgePairs(graph) :
                  LayerOf(layers, p[1]) < LayerOf(layers, p[2])
            /\ IsDiamond(graph) =>
                  [i \in DOMAIN layers |-> Range(layers[i])]
                      = <<{1}, {2}, {3, 4}>>

\* get_execution_order() ran on the diamond
C8_Witness ==
    /\ call.op = "get_execution_order"
    /\ IsDiamond(graph)
    /\ Len(ret.value) = 3

\* C9: for every non-empty acyclic graph find_critical_path() returns a path
\* that starts at a root task, ends at a leaf task, has every consecutive
\* pair joined by an edge, and has as many tasks as the longest directed
\* path of the graph; for an empty graph it returns the empty path.
C9_CriticalPath ==
    (call.op = "find_critical_path" /\ ~HasDirectedCycle(graph)) =>
        LET path == ret.value
        IN  /\ ret.raised = "none"
            /\ TaskIds(graph) = {} => path = <<>>
            /\ TaskIds(graph) # {} =>
                  /\ path # <<>>
                  /\ IsRoot(graph, path[1])
                  /\ IsLeaf(graph, path[Len(path)])
                  /\ \A i \in 1 .. (Len(path) - 1) :
                        <<path[i], path[i + 1]>> \in EdgePairs(graph)
                  /\ Len(path) = Max({Len(p) : p \in DirectedPaths(graph)})

\* find_critical_path() ran on the diamond and took the branch to D
C9_Witness ==
    /\ call.op = "find_critical_path"
    /\ IsDiamond(graph)
    /\ ret.value = <<1, 2, 4>>

\* C10: for every task t of an acyclic graph get_dependency_depth(t) is the
\* number of edges of the longest directed path ending at t: 0 exactly for
\* the tasks with no upstream, 1 + the greatest depth of t's upstream tasks
\* otherwise (diamond: 0, 1, 2, 2).
C10_DependencyDepth ==
    (call.op = "get_dependency_depth" /\ ~HasDirectedCycle(graph)) =>
        LET t == call.task_id
            depth == ret.value
        IN  /\ depth = Max({Len(p) - 1 :
                               p \in {q \in DirectedPaths(graph) :
                                         q[Len(q)] = t}})
            /\ depth = 0 <=> Upstream(graph, t) = {}
            /\ Upstream(graph, t) # {} =>
                  depth = 1 + Max({get_dependency_depth(graph, u) :
                                      u \in Upstream(graph, t)})
            /\ IsDiamond(graph) => depth = <<0, 1, 2, 2>>[t]

\* get_dependency_depth("D") ran on the diamond
C10_Witness ==
    /\ call.op = "get_dependency_depth"
    /\ IsDiamond(graph)
    /\ call.task_id = 4
    /\ ret.value = 2

\* the weakly connected components of g: the classes of the tasks under
\* the edges taken in both directions
WeakComponents(g) ==
    LET both == EdgePairs(g) \cup {<<p[2], p[1]>> : p \in EdgePairs(g)}
        linked == TransitiveClosure(both \cup {<<id, id>> : id \in TaskIds(g)})
    IN  {{j \in TaskIds(g) : <<id, j>> \in linked} : id \in TaskIds(g)}

WarningsWith(text) ==
    SelectSeq(ret.value.warnings, LAMBDA w : w.msg = text)

\* C11: validate() warns about unreachable tasks exactly when the graph has
\* more than one weakly connected component; the ids listed are, each once,
\* the tasks outside one largest component, and each other component is
\* reported once with its size and its members.
C11_DisconnectedComponentsWarning ==
    call.op = "validate" =>
        LET comps == WeakComponents(graph)
            unreachable == WarningsWith("Unreachable tasks")
            reported == WarningsWith("Disconnected component")
        IN  /\ (unreachable # <<>>) <=> (Cardinality(comps) > 1)
            /\ (reported # <<>>) <=> (Cardinality(comps) > 1)
            /\ Cardinality(comps) > 1 =>
                 /\ Len(unreachable) = 1
                 /\ \E primary \in comps :
                      /\ \A c \in comps :
                            Cardinality(c) <= Cardinality(primary)
                      /\ Range(unreachable[1].arg) = TaskIds(graph) \ primary
                      /\ Len(unreachable[1].arg)
                            = Cardinality(TaskIds(graph) \ primary)
                      /\ {Range(reported[i].arg.members) :
                             i \in DOMAIN reported} = comps \ {primary}
                      /\ Len(reported) = Cardinality(comps) - 1
                 /\ \A i \in DOMAIN reported :
                      /\ reported[i].arg.size
                            = Cardinality(Range(reported[i].arg.members))
                      /\ reported[i].arg.size = Len(reported[i].arg.members)

\* validate() on A->B, C->D: two components of the same size, the second
\* one listed
C11_Witness ==
    /\ call.op = "validate"
    /\ TaskIds(graph) = 1 .. 4
    /\ EdgePairs(graph) = {<<1, 2>>, <<3, 4>>}
    /\ WarningsWith("Unreachable tasks") = <<Msg("Unreachable tasks", <<3, 4>>)>>

\* C19: validate() returns is_valid true exactly when its errors list is
\* empty, and for a graph with tasks and without a directed cycle, whatever
\* its isolated tasks and weakly connected components, the errors list is
\* empty and is_valid is true.
C19_IsolatedAndDisconnectedAreWarnings ==
    call.op = "validate" =>
        /\ ret.value.is_valid <=> (ret.value.errors = <<>>)
        /\ (TaskIds(graph) # {} /\ ~HasDirectedCycle(graph)) =>
              (ret.value.errors = <<>> /\ ret.value.is_valid)

\* validate() on the tasks 1..4 with the single edge 3->4: two isolated
\* tasks, three components, and a valid graph
C19_Witness ==
    /\ call.op = "validate"
    /\ TaskIds(graph) = 1 .. 4
    /\ EdgePairs(graph) = {<<3, 4>>}
    /\ ret.value.is_valid
    /\ WarningsWith("Isolated tasks") = <<Msg("Isolated tasks", <<1, 2>>)>>
    /\ Len(WarningsWith("Disconnected component")) = 2

(***************************************************************************)
(* SpecBuild: GraphBuilder.build() run once on an object directory.  The   *)
(* directory is given by what the collaborators of build() make of it: the *)
(* FlowAnalysis the Python parser returns, the outcome of parsing each     *)
(* YAML file, and the step that raises, if one does.  graph is the graph   *)
(* of the returned GraphBuildResult.                                       *)
(***************************************************************************)
MaxSrcTasks == 2

MaxSrcEdges == 2

MaxYamlFiles == 1

SrcTaskTypes == {"Mapping", "CreateObjects", "GenerateReport", "Filter"}

YamlOutcomes == {"ok", "errors", "warnings", "raise"}

EarlyFaults == {"invalid_path", "locate_creation_flow", "ASTPythonParser"}

LateFaults == {"none", "find_all_yaml_files", "enrich_graph_with_yaml"}

\* self.graph = None
NoGraph == [object_name |-> "None", tasks |-> <<>>, edges |-> <<>>]

RECURSIVE SrcTaskLists(_)
\* the task lists of length n _extract_task_definitions can return: one
\* Task per assignment, ids numbered by first appearance, a variable
\* assigned twice giving two Tasks of the same id
SrcTaskLists(n) ==
    IF n = 0
    THEN {<<>>}
    ELSE UNION {{Append(ts, Task(id, ty)) :
                    id \in 1 .. (Max({0} \cup {ts[i].task_id :
                                                  i \in DOMAIN ts}) + 1),
                    ty \in SrcTaskTypes} :
                ts \in SrcTaskLists(n - 1)}

\* the edges _extract_dependencies returns for the pair numbers of l over
\* the ids 1..k: between known ids, no pair twice
SrcEdges(k, l) ==
    [j \in DOMAIN l |->
        Edge(PairAt(k, l[j])[1], PairAt(k, l[j])[2], "None", "dependency")]

RECURSIVE YamlFileLists(_)
\* the lists of at most n YAML files, each by its parsing outcome
YamlFileLists(n) ==
    IF n = 0
    THEN {<<>>}
    ELSE {<<>>} \cup UNION {{<<o>> \o fs : fs \in YamlFileLists(n - 1)} :
                               o \in YamlOutcomes}

\* the FlowAnalysis ASTPythonParser.parse returns: status is "ok" when no
\* pass raised, else the exception class caught
ParsedAnalysis(status, tasks, edges) ==
    [object_name |-> "test",
     tasks |-> tasks,
     edges |-> edges,
     errors |-> CASE status = "SyntaxError" ->
                       <<Msg("Python syntax error", <<>>)>>
                  [] status = "Exception" ->
                       <<Msg("Unexpected error during parsing", <<>>)>>
                  [] OTHER -> <<>>,
     warnings |-> IF status = "ok" /\ tasks = <<>>
                  THEN <<Msg("No tasks found in flow", <<>>)>>
                  ELSE <<>>]

\* what build() never reads when it returns before parsing
NoAnalysis == ParsedAnalysis("ok", <<>>, <<>>)

InitBuild ==
    /\ config_cache = EmptyDict
    /\ config_dir = EmptyDict
    /\ graph = NoGraph
    /\ call = NoCall
    /\ ret = NoRet

Build(in) ==
    /\ call' = [op |-> "build", in |-> in]
    /\ ret' = [raised |-> "none", value |-> build(in)]
    /\ graph' = ret'.value.graph
    /\ UNCHANGED <<config_cache, config_dir>>

\* build() on a directory FileLocator rejects, or without creation_flow.py,
\* or with a flow file the parser's constructor rejects
BuildEarlyFault ==
    /\ call = NoCall
    /\ \E fault \in EarlyFaults :
          Build([fault |-> fault, analysis |-> NoAnalysis,
                 yaml_files |-> <<>>])

\* build() on a directory whose flow file was read
BuildParsed ==
    /\ call = NoCall
    /\ \E fault \in LateFaults, status \in {"ok", "SyntaxError", "Exception"} :
        \E n \in 0 .. (IF status = "SyntaxError" THEN 0 ELSE MaxSrcTasks) :
          \E tasks \in SrcTaskLists(n) :
            LET k == Cardinality({tasks[i].task_id : i \in DOMAIN tasks})
            IN  \E l \in PairLists(k, 0, MaxSrcEdges) :
                  \E files \in YamlFileLists(IF fault = "find_all_yaml_files"
                                              THEN 0 ELSE MaxYamlFiles) :
                      /\ fault = "enrich_graph_with_yaml" => n > 0
                      /\ Build([fault |-> fault,
                                analysis |-> ParsedAnalysis(status, tasks,
                                                            SrcEdges(k, l)),
                                yaml_files |-> files])

NextBuild ==
    \/ BuildEarlyFault
    \/ BuildParsed

SpecBuild == InitBuild /\ [][NextBuild]_vars

BuildReturned == call.op = "build"

\* C4: in every result build() returns, on every return path, success is
\* true exactly when the errors list is empty, whatever the warnings are.
C4_SuccessIffNoErrors ==
    BuildReturned => (ret.value.success <=> ret.value.errors = <<>>)

\* a build that succeeds although it reports a warning
C4_Witness ==
    /\ BuildReturned
    /\ ret.value.success
    /\ ret.value.warnings # <<>>
    /\ ret.value.graph.edges # <<>>

\* C5: build() never raises; when the object path is invalid, the flow
\* file cannot be located or a step raises, the result has success false,
\* a non-empty errors list and an empty graph named "unknown".
C5_FailedBuildResult ==
    BuildReturned =>
        /\ ret.raised = "none"
        /\ call.in.fault # "none" =>
              /\ ~ret.value.success
              /\ ret.value.errors # <<>>
              /\ ret.value.graph.object_name = "unknown"
              /\ ret.value.graph.tasks = <<>>
              /\ ret.value.graph.edges = <<>>

\* a step raises after tasks and edges were already added to self.graph
C5_Witness ==
    /\ BuildReturned
    /\ call.in.fault = "enrich_graph_with_yaml"
    /\ call.in.analysis.edges # <<>>
    /\ ret.value.graph = FlowGraph("unknown")
    /\ ~ret.value.success

\* C6: when no step raises, the result's errors hold the circular-dependency
\* finding exactly when the returned graph has a directed cycle (a self-loop
\* included), and then success is false.
C6_CycleReported ==
    (BuildReturned /\ call.in.fault = "none") =>
        /\ HasDirectedCycle(ret.value.graph)
              <=> "Circular dependencies detected in flow"
                      \in Msgs(ret.value.errors)
        /\ HasDirectedCycle(ret.value.graph) => ~ret.value.success

MetadataKeys == {"object_name", "task_count", "edge_count", "yaml_files_parsed"}

C14_EmptyGraphIsBuildError ==
    (/\ BuildReturned
     /\ call.in.fault = "none"
     /\ call.in.analysis.errors = <<>>
     /\ call.in.analysis.tasks = <<>>)
        => (~ret.value.success /\ ret.value.errors # <<>>)

\* C15: after build() completes normally the graph has as many tasks as the
\* source parser returned, and the id of every parsed task is a key of the
\* graph's task mapping.
C15_GraphHoldsParsedTasks ==
    (BuildReturned /\ call.in.fault = "none") =>
        /\ Cardinality(TaskIds(ret.value.graph))
              = Len(call.in.analysis.tasks)
        /\ \A i \in DOMAIN call.in.analysis.tasks :
              call.in.analysis.tasks[i].task_id \in TaskIds(ret.value.graph)

(***************************************************************************)
(* SpecLink: GraphBuilder._link_known_terminal_chain, step 4.5 of build(), *)
(* run once on a graph as _build_graph_from_analysis leaves it.  call      *)
(* keeps the graph the step started from, ret.value the warnings it        *)
(* appended to an empty list.                                              *)
(***************************************************************************)
NumLinkTasks == 3

NumLinkEdges == 2

LinkTaskTypes ==
    {"Mapping", "MapToSchema", "CreateObjects", "GenerateReport", "Filter"}

\* the graph of the tasks 1..n of the types given and the edges of the
\* pair numbers of l
TypedGraph(n, types, l) ==
    [object_name |-> "test",
     tasks |-> [i \in 1 .. n |-> Task(i, types[i])],
     edges |-> SrcEdges(n, l)]

InitLink ==
    /\ config_cache = EmptyDict
    /\ config_dir = EmptyDict
    /\ \E n \in 0 .. NumLinkTasks :
          \E types \in [1 .. n -> LinkTaskTypes] :
             \E l \in PairLists(n, 0, NumLinkEdges) :
                graph = TypedGraph(n, types, l)
    /\ call = NoCall
    /\ ret = NoRet

LinkKnownTerminalChain ==
    /\ call = NoCall
    /\ LET r == link_known_terminal_chain(graph, <<>>)
       IN  /\ graph' = r.graph
           /\ UNCHANGED <<config_cache, config_dir>>
           /\ call' = [op |-> "_link_known_terminal_chain", graph |-> graph]
           /\ ret' = [raised |-> "none", value |-> r.warnings]

NextLink == LinkKnownTerminalChain

SpecLink == InitLink /\ [][NextLink]_vars

Linked == call.op = "_link_known_terminal_chain"

\* the ids of the tasks of g whose type is one of types
IdsOfType(g, types) == {id \in TaskIds(g) : g.tasks[id].task_type \in types}

\* the pair the step must link for the source and target types given: the
\* only source to the only target, unless an edge source->target was there
DueLinks(g, sources, targets) ==
    {p \in IdsOfType(g, sources) \X IdsOfType(g, targets) :
        /\ Cardinality(IdsOfType(g, sources)) = 1
        /\ Cardinality(IdsOfType(g, targets)) = 1
        /\ p \notin EdgePairs(g)}

LinkWarnings(text) == SelectSeq(ret.value, LAMBDA w : w.msg = text)

C12_WitnessAmbiguous ==
    /\ Linked
    /\ Cardinality(IdsOfType(call.graph, MappingTypes)) = 2
    /\ Cardinality(IdsOfType(call.graph, CreateTypes)) = 1
    /\ graph = call.graph
    /\ ret.value = <<>>

Name(id) == [node |-> "Name", ids |-> <<id>>]

List(ids) == [node |-> "List", ids |-> ids]

Subscript(id) == [node |-> "Subscript", ids |-> <<id>>]

CallValue == [node |-> "Call", ids |-> <<>>]

Keyword(arg, value) == [arg |-> arg, value |-> value]

Assign(target, func, keywords) ==
    [kind |-> "Assign", target |-> target, func |-> func,
     keywords |-> keywords]

MethodCall(object, attr, keywords) ==
    [kind |-> "Expr", object |-> object, attr |-> attr, keywords |-> keywords]

\* the keys of the task_definitions configuration
ConfigTaskTypes == {"Filter", "ReadExcel"}

RECURSIVE AppendNewEdges(_, _)
\* for edge in new: if edge not in edges: edges.append(edge)
AppendNewEdges(edges, new) ==
    IF new = <<>>
    THEN edges
    ELSE AppendNewEdges(
             IF \E k \in DOMAIN edges : EdgeEq(edges[k], Head(new))
             THEN edges
             ELSE Append(edges, Head(new)),
             Tail(new))

\* ASTPythonParser._extract_task_definitions
extract_task_definitions(stmts) ==
    LET found == SelectSeq(stmts, LAMBDA st :
                     st.kind = "Assign" /\ st.func \in ConfigTaskTypes)
    IN  [k \in DOMAIN found |-> Task(found[k].target, found[k].func)]

\* ASTPythonParser._extract_task_list_from_call
extract_task_list_from_call(st, param_names) ==
    Flatten([k \in DOMAIN st.keywords |->
        IF /\ st.keywords[k].arg \in param_names
           /\ st.keywords[k].value.node \in {"List", "Name"}
        THEN st.keywords[k].value.ids
        ELSE <<>>])

\* the edges one statement adds in _extract_dependencies, before the
\* `edge not in edges` test
DependenciesOf(st, task_ids) ==
    IF st.kind # "Expr"
    THEN <<>>
    ELSE IF st.attr = "set_upstream"
    THEN LET upstream_ids ==
                 extract_task_list_from_call(st, {"task", "task_list"})
             kept == SelectSeq(upstream_ids, LAMBDA u :
                         u \in task_ids /\ st.object \in task_ids)
         IN  [k \in DOMAIN kept |->
                 Edge(kept[k], st.object, "None", "dependency")]
    ELSE IF st.attr = "set_downstream"
    THEN LET downstream_ids ==
                 extract_task_list_from_call(st, {"task", "task_list"})
             kept == SelectSeq(downstream_ids, LAMBDA d :
                         st.object \in task_ids /\ d \in task_ids)
         IN  [k \in DOMAIN kept |->
                 Edge(st.object, kept[k], "None", "dependency")]
    ELSE IF st.attr = "set_dependencies"
    THEN LET upstream_ids ==
                 extract_task_list_from_call(st, {"upstream_tasks"})
             kept == SelectSeq(upstream_ids, LAMBDA u :
                         u \in task_ids /\ st.object \in task_ids)
         IN  [k \in DOMAIN kept |->
                 Edge(kept[k], st.object, "None", "dependency")]
    ELSE <<>>

\* ASTPythonParser._extract_dependencies
extract_dependencies(stmts, tasks) ==
    LET task_ids == {tasks[k].task_id : k \in DOMAIN tasks}
    IN  AppendNewEdges(<<>>,
            Flatten([k \in DOMAIN stmts |->
                            DependenciesOf(stmts[k], task_ids)]))

extract_task_references_no_subscript(value) ==
    IF value.node \in {"Name", "List"} THEN value.ids ELSE <<>>

\* ASTPythonParser._extract_task_references
extract_task_references(value) ==
    IF value.node \in {"Name", "List", "Subscript"} THEN value.ids ELSE <<>>

\* the edges one statement adds in _extract_implicit_dependencies, before
\* the `edge not in edges` test
ImplicitDependenciesOf(st, task_ids) ==
    IF st.kind = "Assign" /\ st.target \in task_ids
    THEN Flatten([k \in DOMAIN st.keywords |->
             IF st.keywords[k].arg \in {"input_table", "input_paths"}
             THEN LET source_ids ==
                          extract_task_references(st.keywords[k].value)
                      kept == SelectSeq(source_ids,
                                        LAMBDA src : src \in task_ids)
                  IN  [j \in DOMAIN kept |->
                          Edge(kept[j], st.target, "None", "data_dependency")]
             ELSE <<>>])
    ELSE <<>>

\* ASTPythonParser._extract_implicit_dependencies
extract_implicit_dependencies(stmts, tasks) ==
    LET task_ids == {tasks[k].task_id : k \in DOMAIN tasks}
    IN  AppendNewEdges(<<>>,
            Flatten([k \in DOMAIN stmts |->
                            ImplicitDependenciesOf(stmts[k], task_ids)]))

MergeAllImplicitEdges(edges, implicit_edges) == edges \o implicit_edges

\* the fourth pass of parse: the implicit edges whose pair is new are
\* appended to analysis.edges
MergeImplicitEdges(edges, implicit_edges) ==
    AppendNewEdges(edges, implicit_edges)

\* FlowAnalysis
FlowAnalysis(tasks, edges, errors, warnings) ==
    [object_name |-> "test", tasks |-> tasks, edges |-> edges,
     errors |-> errors, warnings |-> warnings]

\* the body of the try block of parse, when no pass raises
ParsePasses(stmts) ==
    LET tasks == extract_task_definitions(stmts)
        explicit == extract_dependencies(stmts, tasks)
        implicit_edges == extract_implicit_dependencies(stmts, tasks)
        edges == MergeImplicitEdges(explicit, implicit_edges)
    IN  FlowAnalysis(tasks, edges, <<>>,
                     IF tasks = <<>>
                     THEN <<Msg("No tasks found in flow", <<>>)>>
                     ELSE <<>>)

parse_without_except(source) ==
    IF ~source.valid
    THEN [raised |-> "SyntaxError", value |-> "None"]
    ELSE IF ~source.config
    THEN [raised |-> "FileNotFoundError", value |-> "None"]
    ELSE [raised |-> "none", value |-> ParsePasses(source.stmts)]

\* ASTPythonParser.parse.  source.valid tells whether ast.parse accepts the
\* text, source.config whether the task_definitions configuration loads
\* (the first pass reads it, and a failure is caught like any Exception).
parse(source) ==
    IF ~source.valid
    THEN [raised |-> "none",
          value |-> FlowAnalysis(<<>>, <<>>,
                        <<Msg("Python syntax error", <<>>)>>, <<>>)]
    ELSE IF ~source.config
    THEN [raised |-> "none",
          value |-> FlowAnalysis(<<>>, <<>>,
                        <<Msg("Unexpected error during parsing", <<>>)>>,
                        <<>>)]
    ELSE [raised |-> "none", value |-> ParsePasses(source.stmts)]

(***************************************************************************)
(* SpecParse: an ASTPythonParser constructed on a source file, then        *)
(* parse() run once.  call holds the source the constructor read.          *)
(***************************************************************************)
MaxStmts == 2

SrcNames == {"a", "b"}

KeywordValues ==
    {Name(x) : x \in SrcNames} \cup {Subscript(x) : x \in SrcNames}
        \cup {List(<<"a">>), List(<<"a", "b">>), CallValue}

\* target = Filter(...), with at most one keyword
TaskAssigns ==
    {Assign(t, "Filter", kws) :
        t \in SrcNames,
        kws \in {<<>>, <<Keyword("name", Name("a"))>>}
                  \cup {<<Keyword(arg, v)>> :
                           arg \in {"input_table", "input_paths"},
                           v \in KeywordValues}}

\* target = helper(...), no task constructor
OtherAssigns ==
    {Assign(t, "helper", kws) :
        t \in SrcNames,
        kws \in {<<>>} \cup {<<Keyword("input_table", Name(x))>> :
                                x \in SrcNames}}

\* object.set_upstream(task=...), object.set_downstream(task=...),
\* object.set_dependencies(upstream_tasks=...)
WiringCalls ==
    {MethodCall(o, m, <<Keyword(IF m = "set_dependencies"
                                THEN "upstream_tasks" ELSE "task", v)>>) :
        o \in SrcNames,
        m \in {"set_upstream", "set_downstream", "set_dependencies"},
        v \in {Name("a"), Name("b"), List(<<"a", "b">>), CallValue}}

Statements == TaskAssigns \cup OtherAssigns \cup WiringCalls

\* a source that ast.parse rejects or whose configuration is missing is
\* drawn with at most one statement: parse() reads none of them
InitParse ==
    /\ config_cache = EmptyDict
    /\ config_dir = EmptyDict
    /\ graph = NoGraph
    /\ \E n \in 0 .. MaxStmts, valid \in BOOLEAN, config \in BOOLEAN :
          /\ (~valid \/ ~config) => n <= 1
          /\ \E stmts \in [1 .. n -> Statements] :
                call = [op |-> "ASTPythonParser",
                        source |-> [stmts |-> stmts, valid |-> valid,
                                    config |-> config]]
    /\ ret = NoRet

Parse ==
    /\ call.op = "ASTPythonParser"
    /\ call' = [op |-> "parse", source |-> call.source]
    /\ ret' = parse(call.source)
    /\ UNCHANGED <<graph, config_cache, config_dir>>

NextParse == Parse

SpecParse == InitParse /\ [][NextParse]_vars

\* parse() has run on a source that ast.parse accepts, with the
\* configuration loaded
Parsed == call.op = "parse" /\ call.source.valid /\ call.source.config

\* the ids of the tasks parse() returned
KnownTaskIds == {ret.value.tasks[k].task_id : k \in DOMAIN ret.value.tasks}

\* the identifiers the input_table / input_paths keywords of a statement
\* reference: directly, as a list element, or as the base of a subscript
InputReferences(st) ==
    UNION {Range(st.keywords[k].value.ids) :
              k \in {j \in DOMAIN st.keywords :
                        /\ st.keywords[j].arg \in {"input_table", "input_paths"}
                        /\ st.keywords[j].value.node
                              \in {"Name", "List", "Subscript"}}}

\* the pairs the wiring calls of the source connect
ExplicitPairs ==
    UNION {{IF st.attr = "set_downstream" THEN <<st.object, x>>
            ELSE <<x, st.object>> :
               x \in UNION {Range(st.keywords[k].value.ids) :
                               k \in DOMAIN st.keywords}} :
           st \in {t \in Range(call.source.stmts) : t.kind = "Expr"}}

EdgesOfPair(s, t) ==
    SelectSeq(ret.value.edges,
              LAMBDA e : e.source_id = s /\ e.target_id = t)

\* C16: for every task declaration t = Type(...) whose input_table or
\* input_paths keyword references a known task id s, parse() returns an
\* edge s->t, of type data_dependency unless a wiring call connects the
\* pair; and every data_dependency edge s->t returned stems from an
\* assignment to t that references s, both known task ids.
C16_ImplicitDependencies ==
    Parsed =>
        /\ \A st \in Range(call.source.stmts) :
              (st.kind = "Assign" /\ st.func \in ConfigTaskTypes) =>
                  \A s \in InputReferences(st) \cap KnownTaskIds :
                      /\ EdgesOfPair(s, st.target) # <<>>
                      /\ <<s, st.target>> \notin ExplicitPairs =>
                            EdgesOfPair(s, st.target)[1].edge_type
                                = "data_dependency"
        /\ \A k \in DOMAIN ret.value.edges :
              ret.value.edges[k].edge_type = "data_dependency" =>
                  /\ ret.value.edges[k].source_id \in KnownTaskIds
                  /\ ret.value.edges[k].target_id \in KnownTaskIds
                  /\ \E st \in Range(call.source.stmts) :
                        /\ st.kind = "Assign"
                        /\ st.target = ret.value.edges[k].target_id
                        /\ ret.value.edges[k].source_id \in InputReferences(st)

\* a = Filter(); b = Filter(input_table=a["x"]): the only edge is a->b, a
\* data_dependency
C16_Witness ==
    /\ Parsed
    /\ call.source.stmts
          = <<Assign("a", "Filter", <<>>),
              Assign("b", "Filter", <<Keyword("input_table", Subscript("a"))>>)>>
    /\ ret.value.edges = <<Edge("a", "b", "None", "data_dependency")>>

EdgePairAt(k) == <<ret.value.edges[k].source_id, ret.value.edges[k].target_id>>

\* C17: in every analysis parse() returns, each edge has its source_id and
\* its target_id among the ids of the returned tasks, and no two edges of
\* the list have the same (source_id, target_id) pair.
C17_ParsedEdgesValidAndUnique ==
    (call.op = "parse" /\ ret.raised = "none") =>
        /\ \A k \in DOMAIN ret.value.edges :
              /\ ret.value.edges[k].source_id \in KnownTaskIds
              /\ ret.value.edges[k].target_id \in KnownTaskIds
        /\ \A j, k \in DOMAIN ret.value.edges :
              EdgePairAt(j) = EdgePairAt(k) => j = k

\* a = Filter(input_table=a); a.set_upstream(task=a): the wiring call and
\* the constructor argument name the same pair, and one edge is returned
C17_Witness ==
    /\ Parsed
    /\ call.source.stmts
          = <<Assign("a", "Filter", <<Keyword("input_table", Name("a"))>>),
              MethodCall("a", "set_upstream", <<Keyword("task", Name("a"))>>)>>
    /\ ret.value.edges = <<Edge("a", "a", "None", "dependency")>>

\* C18: parse() raises nothing, and for a source that is no valid Python it
\* returns an analysis without tasks and without edges whose errors list is
\* not empty.
C18_SyntaxErrorIsReported ==
    call.op = "parse" =>
        /\ ret.raised = "none"
        /\ ~call.source.valid =>
              /\ ret.value.tasks = <<>>
              /\ ret.value.edges = <<>>
              /\ ret.value.errors # <<>>

\* an invalid source whose text holds a task declaration
C18_Witness ==
    /\ call.op = "parse"
    /\ ~call.source.valid
    /\ call.source.stmts = <<Assign("a", "Filter", <<>>)>>
    /\ ret.value.tasks = <<>>
    /\ "Python syntax error" \in Msgs(ret.value.errors)


(***************************************************************************)
(* The configuration cache: load_config calls on the ConfigLoader          *)
(* singleton (the cache is a class attribute, so every instance shares     *)
(* it), interleaved with changes of the files of the configuration         *)
(* directory made from outside the program.                                *)
(***************************************************************************)
ConfigNames == {"task_definitions", "color_schemes"}

\* what yaml.safe_load makes of a file's content
Documents == {"doc1", "doc2"}

FileContents == {YamlFile(document) : document \in Documents} \cup {InvalidYamlFile}

InitConfig ==
    /\ config_cache = EmptyDict
    /\ config_dir \in UNION {[S -> FileContents] : S \in SUBSET ConfigNames}
    /\ graph = NoGraph
    /\ call = NoCall
    /\ ret = NoRet

\* ConfigLoader().load_config(config_name)
LoadConfig(config_name) ==
    LET r == load_config(config_cache, config_dir, config_name)
    IN  /\ config_cache' = r.cache
        /\ call' = [op |-> "load_config", config_name |-> config_name]
        /\ ret' = [raised |-> r.raised, value |-> r.value, read |-> r.read]
        /\ UNCHANGED <<graph, config_dir>>

\* <config_name>.yaml is created or rewritten
WriteFile(config_name, content) ==
    /\ config_dir' = DictPut(config_dir, config_name, content)
    /\ call' = [op |-> "write_file", config_name |-> config_name]
    /\ ret' = NoRet
    /\ UNCHANGED <<graph, config_cache>>

\* <config_name>.yaml is removed
DeleteFile(config_name) ==
    /\ config_name \in DOMAIN config_dir
    /\ config_dir' = [x \in DOMAIN config_dir \ {config_name} |-> config_dir[x]]
    /\ call' = [op |-> "delete_file", config_name |-> config_name]
    /\ ret' = NoRet
    /\ UNCHANGED <<graph, config_cache>>

NextLoadConfig == \E config_name \in ConfigNames : LoadConfig(config_name)

NextWriteFile ==
    \E config_name \in ConfigNames :
        \E content \in FileContents : WriteFile(config_name, content)

NextDeleteFile == \E config_name \in ConfigNames : DeleteFile(config_name)

NextConfig == NextLoadConfig \/ NextWriteFile \/ NextDeleteFile

SpecConfig == InitConfig /\ [][NextConfig]_vars

\* C20: the configuration cache is load-once, write-once-per-key: a cached
\* entry is never replaced or removed; load_config of a cached name returns
\* the cached document without opening the file, whatever the file has
\* become; a successful load_config leaves the returned document cached
\* under the name; a load_config that raises FileNotFoundError leaves the
\* cache unchanged.
C20_CacheLoadOnceWriteOnce ==
    [][\A n \in ConfigNames :
         /\ n \in DOMAIN config_cache =>
              /\ n \in DOMAIN config_cache'
              /\ config_cache'[n] = config_cache[n]
         /\ (call'.op = "load_config" /\ call'.config_name = n) =>
              /\ n \in DOMAIN config_cache =>
                   /\ ret'.raised = "none"
                   /\ ret'.value = config_cache[n]
                   /\ ~ret'.read
              /\ ret'.raised = "none" =>
                   /\ n \in DOMAIN config_cache'
                   /\ config_cache'[n] = ret'.value
              /\ ret'.raised = "FileNotFoundError" =>
                   config_cache' = config_cache
    ]_vars

\* load_config returned the cached document of a name whose file has since
\* been removed, and of another name whose file now holds another document
C20_Witness ==
    /\ call.op = "load_config"
    /\ ret.raised = "none"
    /\ ~ret.read
    /\ call.config_name \notin DOMAIN config_dir
    /\ \E m \in DOMAIN config_cache \cap DOMAIN config_dir :
           config_dir[m].document # config_cache[m]


(***************************************************************************)
(* The registry accessors of ConfigLoader (config/loader.py).  The         *)
(* registry is the document of task_definitions.yaml: a mapping whose      *)
(* sections task_definitions and color_schemes, when present, are          *)
(* mappings.  Each accessor goes through load_config, so it takes the      *)
(* cache and the directory and yields a LoadOutcome.                       *)
(***************************************************************************)
\* d.get(k, default)
DictGet(d, k, default) == IF k \in DOMAIN d THEN d[k] ELSE default

\* ConfigLoader.get_task_definitions
get_task_definitions(cache, dir) ==
    LET r == load_config(cache, dir, "task_definitions")
    IN  IF r.raised # "none" THEN r
        ELSE [r EXCEPT !.value = DictGet(r.value, "task_definitions", EmptyDict)]

\* ConfigLoader.get_task_def; None is the empty definition
get_task_def(cache, dir, task_type) ==
    LET r == get_task_definitions(cache, dir)
    IN  IF r.raised # "none" THEN r
        ELSE [r EXCEPT !.value = DictGet(r.value, task_type, EmptyDict)]

\* ConfigLoader.get_color_schemes
get_color_schemes(cache, dir) ==
    LET r == load_config(cache, dir, "task_definitions")
    IN  IF r.raised # "none" THEN r
        ELSE [r EXCEPT !.value = DictGet(r.value, "color_schemes", EmptyDict)]

get_color_scheme_without_default(cache, dir, scheme) ==
    LET r == get_color_schemes(cache, dir)
    IN  IF r.raised # "none" THEN r
        ELSE [r EXCEPT !.value = DictGet(r.value, scheme, EmptyDict)]

\* ConfigLoader.get_color_scheme
get_color_scheme(cache, dir, scheme) ==
    LET r == get_color_schemes(cache, dir)
    IN  IF r.raised # "none" THEN r
        ELSE [r EXCEPT !.value =
                  DictGet(r.value, scheme, DictGet(r.value, "default", EmptyDict))]

\* ConfigLoader.get_task_category
get_task_category(cache, dir, task_type) ==
    LET r == get_task_def(cache, dir, task_type)
    IN  IF r.raised # "none" THEN r
        ELSE [r EXCEPT !.value =
                  IF DOMAIN r.value # {}
                  THEN DictGet(r.value, "category", "unknown")
                  ELSE "unknown"]

\* ConfigLoader.get_task_color
get_task_color(cache, dir, task_type, scheme) ==
    LET d == get_task_def(cache, dir, task_type)
    IN  IF d.raised # "none" THEN d
        ELSE IF DOMAIN d.value # {} /\ "color" \in DOMAIN d.value
        THEN [d EXCEPT !.value = d.value["color"]]
        ELSE LET c == get_task_category(d.cache, dir, task_type)
             IN  IF c.raised # "none" THEN c
                 ELSE LET s == get_color_scheme(c.cache, dir, scheme)
                      IN  IF s.raised # "none" THEN s
                          ELSE [s EXCEPT !.value =
                                    DictGet(s.value, c.value, "#F5F5F5")]

\* cat_map of get_task_shape
cat_map ==
    [input |-> "circle", output |-> "rounded",
     processing |-> "rect", utility |-> "rect"]

\* ConfigLoader.get_task_shape
get_task_shape(cache, dir, task_type) ==
    LET d == get_task_def(cache, dir, task_type)
    IN  IF d.raised # "none" THEN d
        ELSE IF DOMAIN d.value # {} /\ "shape" \in DOMAIN d.value
        THEN [d EXCEPT !.value = d.value["shape"]]
        ELSE LET c == get_task_category(d.cache, dir, task_type)
             IN  IF c.raised # "none" THEN c
                 ELSE [c EXCEPT !.value = DictGet(cat_map, c.value, "rect")]


(***************************************************************************)
(* Registry lookups: get_task_category, get_task_color and get_task_shape  *)
(* called in any order on a configuration directory that holds             *)
(* task_definitions.yaml with some registry, or does not hold it.          *)
(***************************************************************************)
RegistryTypes == {"Filter"}

LookupTypes == RegistryTypes \cup {"Unlisted"}

SchemeNames == {"default", "dark"}

LookupSchemes == SchemeNames \cup {"neon"}

SchemeCategories == {"unknown", "input"}

\* the colors a scheme may give to a category
SchemeColor ==
    [default |-> [unknown |-> "#D0D0D0", input |-> "#D1D1D1"],
     dark    |-> [unknown |-> "#A0A0A0", input |-> "#A1A1A1"]]

\* a task type's definition with the keys K
TaskDefinition(K, category) ==
    [k \in K |-> CASE k = "category" -> category
                   [] k = "color" -> "#C0FFEE"
                   [] k = "shape" -> "hexagon"]

TaskDefinitionKeys == {"category", "color", "shape"}

DefinitionCategories == {"input", "other"}

\* the registry document with the sections S
RegistryDocument(S, definitions, schemes) ==
    [k \in S |-> IF k = "task_definitions" THEN definitions ELSE schemes]

InitRegistry ==
    /\ config_cache = EmptyDict
    /\ graph = NoGraph
    /\ call = NoCall
    /\ ret = NoRet
    /\ \/ config_dir = EmptyDict
       \/ \E S \in SUBSET {"task_definitions", "color_schemes"} :
          \E T \in SUBSET RegistryTypes :
          \E K \in SUBSET TaskDefinitionKeys :
          \E category \in DefinitionCategories :
          \E N \in SUBSET SchemeNames :
          \E C \in [N -> SUBSET SchemeCategories] :
              config_dir =
                  [n \in {"task_definitions"} |->
                      YamlFile(RegistryDocument(S,
                          [t \in T |-> TaskDefinition(K, category)],
                          [sn \in N |-> [c \in C[sn] |-> SchemeColor[sn][c]]]))]

\* ConfigLoader().get_task_category(task_type)
GetTaskCategory(task_type) ==
    LET r == get_task_category(config_cache, config_dir, task_type)
    IN  /\ config_cache' = r.cache
        /\ call' = [op |-> "get_task_category", task_type |-> task_type]
        /\ ret' = [raised |-> r.raised, value |-> r.value]
        /\ UNCHANGED <<graph, config_dir>>

\* ConfigLoader().get_task_color(task_type, scheme)
GetTaskColor(task_type, scheme) ==
    LET r == get_task_color(config_cache, config_dir, task_type, scheme)
    IN  /\ config_cache' = r.cache
        /\ call' = [op |-> "get_task_color", task_type |-> task_type,
                    scheme |-> scheme]
        /\ ret' = [raised |-> r.raised, value |-> r.value]
        /\ UNCHANGED <<graph, config_dir>>

\* ConfigLoader().get_task_shape(task_type)
GetTaskShape(task_type) ==
    LET r == get_task_shape(config_cache, config_dir, task_type)
    IN  /\ config_cache' = r.cache
        /\ call' = [op |-> "get_task_shape", task_type |-> task_type]
        /\ ret' = [raised |-> r.raised, value |-> r.value]
        /\ UNCHANGED <<graph, config_dir>>

NextGetTaskCategory == \E task_type \in LookupTypes : GetTaskCategory(task_type)

NextGetTaskColor ==
    \E task_type \in LookupTypes :
        \E scheme \in LookupSchemes : GetTaskColor(task_type, scheme)

NextGetTaskShape == \E task_type \in LookupTypes : GetTaskShape(task_type)

NextRegistry == NextGetTaskCategory \/ NextGetTaskColor \/ NextGetTaskShape

SpecRegistry == InitRegistry /\ [][NextRegistry]_vars

\* a lookup was made and the registry is loaded
LookedUp ==
    /\ call.op \in {"get_task_category", "get_task_color", "get_task_shape"}
    /\ "task_definitions" \in DOMAIN config_cache

\* the loaded registry
Registry == config_cache["task_definitions"]

\* the registry has an entry for the task type
HasEntry(task_type) ==
    /\ "task_definitions" \in DOMAIN Registry
    /\ task_type \in DOMAIN Registry["task_definitions"]

\* the scheme a lookup with this scheme name uses: the named one, else the
\* "default" one, else an empty one
SchemeUsed(scheme) ==
    LET schemes == IF "color_schemes" \in DOMAIN Registry
                   THEN Registry["color_schemes"] ELSE EmptyDict
    IN  IF scheme \in DOMAIN schemes THEN schemes[scheme]
        ELSE IF "default" \in DOMAIN schemes THEN schemes["default"]
        ELSE EmptyDict

\* C21: for a task type without an entry in the loaded registry no lookup
\* raises; get_task_category returns "unknown", get_task_shape returns
\* "rect", and get_task_color returns the color the scheme gives to category
\* "unknown" if it gives one and "#F5F5F5" otherwise, where an unknown scheme
\* name stands for the "default" scheme.
C21_UnknownTypeDefaults ==
    (LookedUp /\ ~HasEntry(call.task_type)) =>
        /\ ret.raised = "none"
        /\ call.op = "get_task_category" => ret.value = "unknown"
        /\ call.op = "get_task_shape" => ret.value = "rect"
        /\ call.op = "get_task_color" =>
               ret.value = IF "unknown" \in DOMAIN SchemeUsed(call.scheme)
                           THEN SchemeUsed(call.scheme)["unknown"]
                           ELSE "#F5F5F5"

\* the color of an unlisted type was looked up under an unknown scheme name
\* in a registry that lists another type and whose default scheme colors
\* category "unknown"
C21_Witness ==
    /\ LookedUp
    /\ call.op = "get_task_color"
    /\ call.task_type = "Unlisted"
    /\ call.scheme = "neon"
    /\ HasEntry("Filter")
    /\ ret.value = "#D0D0D0"


(***************************************************************************)
(* YAMLParser (parsers/yaml_parser.py).  A YAML value carries its Python   *)
(* type: None, a str (the sequence of its words), an int, a list of        *)
(* values, or a dict from keys to values.  The content of a file is a      *)
(* YamlFile(data) or the InvalidYamlFile on which yaml.load raises.        *)
(***************************************************************************)
YNone == [kind |-> "none"]

YStr(words) == [kind |-> "str", words |-> words]

YInt == [kind |-> "int"]

YList(items) == [kind |-> "list", items |-> items]

YDict(entries) == [kind |-> "dict", entries |-> entries]

\* isinstance(v, dict)
IsDict(v) == v.kind = "dict"

\* isinstance(v, list)
IsList(v) == v.kind = "list"

\* key in d, for a dict d
HasKey(d, key) == key \in DOMAIN d.entries

\* d.get(key, default), for a dict d
YGet(d, key, default) == DictGet(d.entries, key, default)

\* f"...{idx}", the default id of the item at idx
IndexedName(prefix, idx) == [kind |-> "str", prefix |-> prefix, idx |-> idx]

YAMLAnalysis(file_type, merge_rules, filter_criteria, mapping_rules, errors, warnings) ==
    [file_type |-> file_type, merge_rules |-> merge_rules,
     filter_criteria |-> filter_criteria, mapping_rules |-> mapping_rules,
     errors |-> errors, warnings |-> warnings]

determine_file_type_filter_first(data) ==
    IF IsList(data)
    THEN IF \A k \in DOMAIN data.items :
                IsDict(data.items[k]) /\ HasKey(data.items[k], "criteria")
         THEN "filter"
         ELSE "unknown"
    ELSE IF IsDict(data)
    THEN IF HasKey(data, "filter") \/ HasKey(data, "filters") THEN "filter"
         ELSE IF HasKey(data, "merging_rules") THEN "merge"
         ELSE IF HasKey(data, "mapping_rules") THEN "mapping"
         ELSE "unknown"
    ELSE "unknown"

\* YAMLParser._determine_file_type
determine_file_type(data) ==
    IF IsList(data)
    THEN IF \A k \in DOMAIN data.items :
                IsDict(data.items[k]) /\ HasKey(data.items[k], "criteria")
         THEN "filter"
         ELSE "unknown"
    ELSE IF IsDict(data)
    THEN IF HasKey(data, "merging_rules") THEN "merge"
         ELSE IF HasKey(data, "filter") \/ HasKey(data, "filters") THEN "filter"
         ELSE IF HasKey(data, "mapping_rules") THEN "mapping"
         ELSE "unknown"
    ELSE "unknown"

\* table_ref.replace('!env', '').strip() for a str, str(table_ref) otherwise
TableName(table_ref) ==
    IF table_ref.kind = "str"
    THEN SelectSeq(table_ref.words, LAMBDA w : w # "!env")
    ELSE <<"None">>

\* tuple(v) raises TypeError
NotIterable(v) == v.kind \in {"none", "int"}

\* the MergeRule(...) call of _parse_merge_rules raises
MergeRuleRaises(rule_data) ==
    LET loading_params == YGet(rule_data, "loading_params", YDict(EmptyDict))
        merging_params == YGet(rule_data, "merging_params", YDict(EmptyDict))
    IN  \/ ~IsDict(merging_params)
        \/ NotIterable(YGet(merging_params, "suffixes", YList(<<>>)))
        \/ ~IsDict(loading_params)

MergeRule(rule_data) ==
    [table |-> TableName(YGet(rule_data, "table", YNone)),
     merge_type |-> YGet(YGet(rule_data, "merging_params", YDict(EmptyDict)),
                         "how", YStr(<<"left">>))]

RECURSIVE MergeRulesLoop(_, _, _)
\* for idx, rule_data in enumerate(merge_rules_data), from position i on
MergeRulesLoop(items, i, analysis) ==
    IF i > Len(items)
    THEN analysis
    ELSE LET rule_data == items[i]
             idx == i - 1
         IN  MergeRulesLoop(items, i + 1,
                 IF IsDict(rule_data) /\ HasKey(rule_data, "table")
                 THEN IF MergeRuleRaises(rule_data)
                      THEN [analysis EXCEPT !.warnings =
                               Append(@, Msg("Failed to parse merge rule", idx))]
                      ELSE [analysis EXCEPT !.merge_rules =
                               Append(@, MergeRule(rule_data))]
                 ELSE analysis)

\* YAMLParser._parse_merge_rules
parse_merge_rules(data, analysis) ==
    LET merge_rules_data == YGet(data, "merging_rules", YList(<<>>))
    IN  IF ~IsList(merge_rules_data)
        THEN [analysis EXCEPT !.errors =
                 Append(@, Msg("merging_rules must be a list", "None"))]
        ELSE MergeRulesLoop(merge_rules_data.items, 1, analysis)

FilterCriteria(filter_data, criteria_def, idx) ==
    [criteria_type |-> YGet(criteria_def, "criteria", YStr(<<"unknown">>)),
     criteria_id |-> YGet(filter_data, "criteria_id",
                          IndexedName("filter_", idx))]

RECURSIVE FilterCriteriaLoop(_, _, _)
\* for idx, filter_data in enumerate(filter_list), from position i on
FilterCriteriaLoop(items, i, analysis) ==
    IF i > Len(items)
    THEN analysis
    ELSE LET filter_data == items[i]
             idx == i - 1
         IN  FilterCriteriaLoop(items, i + 1,
                 IF ~IsDict(filter_data)
                 THEN [analysis EXCEPT !.warnings =
                          Append(@, Msg("Filter is not a dictionary", idx))]
                 ELSE LET criteria_def ==
                              YGet(filter_data, "criteria", YDict(EmptyDict))
                      IN  IF IsDict(criteria_def)
                          THEN [analysis EXCEPT !.filter_criteria =
                                   Append(@, FilterCriteria(filter_data,
                                                            criteria_def, idx))]
                          ELSE analysis)

\* YAMLParser._parse_filter_criteria
parse_filter_criteria(data, analysis) ==
    LET filter_list == IF IsList(data)
                       THEN data
                       ELSE YGet(data, "filters",
                                 YGet(data, "filter", YList(<<>>)))
    IN  IF ~IsList(filter_list)
        THEN [analysis EXCEPT !.errors =
                 Append(@, Msg("Filter rules must be a list", "None"))]
        ELSE FilterCriteriaLoop(filter_list.items, 1, analysis)

MappingRule(rule_data, idx) ==
    [rule_id |-> YGet(rule_data, "id", IndexedName("mapping_", idx)),
     action |-> YGet(rule_data, "action", YStr(<<"unknown">>))]

RECURSIVE MappingRulesLoop(_, _, _)
\* for idx, rule_data in enumerate(mapping_rules_data), from position i on
MappingRulesLoop(items, i, analysis) ==
    IF i > Len(items)
    THEN analysis
    ELSE LET rule_data == items[i]
             idx == i - 1
         IN  MappingRulesLoop(items, i + 1,
                 IF ~IsDict(rule_data)
                 THEN [analysis EXCEPT !.warnings =
                          Append(@, Msg("Mapping rule is not a dictionary", idx))]
                 ELSE [analysis EXCEPT !.mapping_rules =
                          Append(@, MappingRule(rule_data, idx))])

\* YAMLParser._parse_mapping_rules
parse_mapping_rules(data, analysis) ==
    LET mapping_rules_data == YGet(data, "mapping_rules", YList(<<>>))
    IN  IF ~IsList(mapping_rules_data)
        THEN [analysis EXCEPT !.errors =
                 Append(@, Msg("mapping_rules must be a list", "None"))]
        ELSE MappingRulesLoop(mapping_rules_data.items, 1, analysis)

\* YAMLParser.parse, on the content read by the constructor
yaml_parse(raw_content) ==
    LET analysis == YAMLAnalysis("unknown", <<>>, <<>>, <<>>, <<>>, <<>>)
        data == raw_content.document
    IN  IF ~raw_content.parses
        THEN [analysis EXCEPT !.errors = Append(@, Msg("YAML parse error", "None"))]
        ELSE IF data.kind = "none"
        THEN [analysis EXCEPT !.warnings = Append(@, Msg("YAML file is empty", "None"))]
        ELSE LET typed == [analysis EXCEPT !.file_type = determine_file_type(data)]
             IN  CASE typed.file_type = "merge" -> parse_merge_rules(data, typed)
                   [] typed.file_type = "filter" -> parse_filter_criteria(data, typed)
                   [] typed.file_type = "mapping" -> parse_mapping_rules(data, typed)
                   [] OTHER -> [typed EXCEPT !.warnings =
                                   Append(@, Msg("Unknown YAML file type", "None"))]


(***************************************************************************)
(* Specification SpecYaml: one YAMLParser, constructed on a file of some   *)
(* content, whose parse() is called.                                       *)
(***************************************************************************)
MaxItems == 2

\* the lists of at most n elements of S
ListsUpTo(S, n) == UNION {[1 .. k -> S] : k \in 0 .. n}

\* a dict with the keys K, each key with the value chosen for it
DictOf(K, value) == YDict([k \in K |-> value[k]])

MergingParams ==
    {YNone, YDict(EmptyDict), YDict([suffixes |-> YInt]),
     YDict([suffixes |-> YList(<<YStr(<<"_x">>), YStr(<<"_y">>)>>)])}

LoadingParams == {YNone, YDict(EmptyDict)}

TableRefs == {YStr(<<"!env", "T1">>), YNone}

\* the items of a merging_rules list
MergeItems ==
    {YStr(<<"text">>)} \cup
    {DictOf(K, [table |-> t, merging_params |-> mp, loading_params |-> lp]) :
        K \in SUBSET {"table", "merging_params", "loading_params"},
        t \in TableRefs, mp \in MergingParams, lp \in LoadingParams}

CriteriaDefs ==
    {YStr(<<"text">>), YDict(EmptyDict),
     YDict([criteria |-> YStr(<<"comparison">>)])}

\* the items of a filter list
FilterItems ==
    {YStr(<<"text">>), YDict(EmptyDict)} \cup
    {YDict([criteria |-> c]) : c \in CriteriaDefs}

\* the items of a mapping_rules list
MappingItems ==
    {YStr(<<"text">>), YDict(EmptyDict), YDict([id |-> YStr(<<"m1">>)])}

RuleListKeys == {"merging_rules", "filter", "filters", "mapping_rules"}

ItemsFor(key) ==
    CASE key = "merging_rules" -> MergeItems
      [] key = "mapping_rules" -> MappingItems
      [] OTHER -> FilterItems

\* the values a rule-list key may have
RuleListValues(key) ==
    {YStr(<<"not_a_list">>)} \cup
    {YList(items) : items \in ListsUpTo(ItemsFor(key), MaxItems)}

YamlCall(raw_content) == [op |-> "YAMLParser", raw_content |-> raw_content]

InitYaml ==
    /\ config_cache = EmptyDict
    /\ config_dir = EmptyDict
    /\ graph = NoGraph
    /\ ret = NoRet
    /\ \/ call = YamlCall(InvalidYamlFile)
       \/ \E data \in {YNone, YStr(<<"text">>), YDict(EmptyDict),
                       YDict([other |-> YList(<<>>)])} :
              call = YamlCall(YamlFile(data))
       \/ \E items \in ListsUpTo(FilterItems, MaxItems) :
              call = YamlCall(YamlFile(YList(items)))
       \/ \E K \in SUBSET RuleListKeys :
          \E key \in K :
          \E value \in RuleListValues(key) :
              call = YamlCall(YamlFile(YDict(
                         [k \in K |-> IF k = key THEN value ELSE YList(<<>>)])))

\* YAMLParser.parse()
ParseYaml ==
    /\ call.op = "YAMLParser"
    /\ call' = [op |-> "yaml_parse", raw_content |-> call.raw_content]
    /\ ret' = [raised |-> "none", value |-> yaml_parse(call.raw_content)]
    /\ UNCHANGED <<graph, config_cache, config_dir>>

NextYaml == ParseYaml

SpecYaml == InitYaml /\ [][NextYaml]_vars

\* parse() has returned on a file whose content is a YAML document
YamlParsed == call.op = "yaml_parse" /\ call.raw_content.parses

\* the document parsed
YamlData == call.raw_content.document

\* the dict has the key
DocHas(key) == IsDict(YamlData) /\ HasKey(YamlData, key)

\* C22: file-type detection follows a fixed priority: a mapping with a
\* merging_rules key is merge type; otherwise one with a filter or filters
\* key is filter type; otherwise one with a mapping_rules key is mapping
\* type; a sequence is filter type exactly when every element is a mapping
\* with a criteria key; every other document is unknown, which parse()
\* records as a warning and never as an error.
C22_FileTypeDetection ==
    YamlParsed =>
        LET a == ret.value
            expected ==
                CASE DocHas("merging_rules") -> "merge"
                  [] DocHas("filter") \/ DocHas("filters") -> "filter"
                  [] DocHas("mapping_rules") -> "mapping"
                  [] IsList(YamlData)
                     /\ \A k \in DOMAIN YamlData.items :
                            /\ IsDict(YamlData.items[k])
                            /\ HasKey(YamlData.items[k], "criteria") -> "filter"
                  [] OTHER -> "unknown"
        IN  /\ a.file_type = expected
            /\ a.file_type = "unknown" => a.warnings # <<>> /\ a.errors = <<>>

\* a mapping with the keys merging_rules, filter and mapping_rules was parsed
\* as merge type
C22_Witness ==
    /\ YamlParsed
    /\ DocHas("merging_rules") /\ DocHas("filter") /\ DocHas("mapping_rules")
    /\ ret.value.file_type = "merge"


\* the value of the rule-list key that parse() reads for the file type
RuleListRead ==
    LET a == ret.value
    IN  CASE a.file_type = "merge" -> YGet(YamlData, "merging_rules", YList(<<>>))
          [] a.file_type = "mapping" -> YGet(YamlData, "mapping_rules", YList(<<>>))
          [] a.file_type = "filter" ->
                IF IsList(YamlData)
                THEN YamlData
                ELSE YGet(YamlData, "filters", YGet(YamlData, "filter", YList(<<>>)))
          [] OTHER -> YList(<<>>)

\* the rule objects parse() made
RulesMade ==
    ret.value.merge_rules \o ret.value.filter_criteria \o ret.value.mapping_rules

\* the indices of the items a warning was recorded for
ItemsWarned == {ret.value.warnings[k].arg : k \in DOMAIN ret.value.warnings}

\* C23: per-item tolerance of parse(): in a merge, filter or mapping file
\* every item of the rule list either becomes a rule object or is skipped
\* with a warning recorded for it; no item is dropped silently, and parse()
\* does not raise.
C23_EveryItemParsedOrWarned ==
    (YamlParsed /\ ret.value.file_type # "unknown" /\ IsList(RuleListRead)) =>
        /\ ret.raised = "none"
        /\ Len(RulesMade) + Cardinality(ItemsWarned) = Len(RuleListRead.items)


(***************************************************************************)
(* Claims about the analyses on graphs with cycles (under SpecAnalysis)    *)
(***************************************************************************)
\* id is on a directed cycle or downstream of one
OnOrAfterCycle(g, id) ==
    LET reach == TransitiveClosure(EdgePairs(g))
    IN  \E c \in TaskIds(g) :
            /\ <<c, c>> \in reach
            /\ c = id \/ <<c, id>> \in reach

\* the sum of the lengths of the layers from position i on
RECURSIVE LayeredCount(_, _)
LayeredCount(layers, i) ==
    IF i > Len(layers) THEN 0 ELSE Len(layers[i]) + LayeredCount(layers, i + 1)

\* C24: get_execution_order() returns on every graph; no layer is empty, a
\* task is in exactly one layer if it is neither on a directed cycle nor
\* downstream of one and in no layer otherwise, so the number of layered
\* tasks never exceeds the number of tasks.
C24_PartialLayeringOnCycles ==
    call.op = "get_execution_order" =>
        LET layers == ret.value
        IN  /\ ret.raised = "none"
            /\ \A i \in DOMAIN layers :
                  /\ layers[i] # <<>>
                  /\ Cardinality(Range(layers[i])) = Len(layers[i])
            /\ \A id \in TaskIds(graph) :
                  Cardinality({i \in DOMAIN layers : id \in Range(layers[i])}) =
                      IF OnOrAfterCycle(graph, id) THEN 0 ELSE 1
            /\ LayeredCount(layers, 1) <= Cardinality(TaskIds(graph))

\* on 1->2, 2->3, 3->2, 3->4 only task 1 is layered
C24_Witness ==
    /\ call.op = "get_execution_order"
    /\ TaskIds(graph) = 1 .. 4
    /\ EdgePairs(graph) = {<<1, 2>>, <<2, 3>>, <<3, 2>>, <<3, 4>>}
    /\ ret.value = << <<1>> >>


\* C25: find_critical_path() returns a path, without raising, on every graph
\* that add_task/add_edge can build, graphs in which a root task reaches a
\* directed cycle included; on a graph without root task it returns the empty
\* path.
C25_CriticalPathReturns ==
    call.op = "find_critical_path" =>
        /\ ret.raised = "none"
        /\ (\A id \in TaskIds(graph) : ~IsRoot(graph, id)) => ret.value = <<>>


RECURSIVE SimplePathsFrom(_, _)
\* the paths given and every extension of one, backwards along an edge, by a
\* task it does not hold yet
SimplePathsFrom(g, paths) ==
    LET next == {<<x[2][1]>> \o x[1] :
                    x \in {y \in paths \X EdgePairs(g) :
                              /\ y[2][2] = y[1][1]
                              /\ y[2][1] \notin Range(y[1])}}
    IN  IF next = {} THEN paths ELSE paths \cup SimplePathsFrom(g, next)

\* the directed paths without repeated task that end at id
SimplePathsTo(g, id) == SimplePathsFrom(g, {<<id>>})

\* the edges walked backwards from the end of the path q to its start, plus
\* the edge into the start from a task of q if there is one (the revisit)
WalkLength(g, q) ==
    Len(q) - 1 + (IF \E u \in Range(q) : <<u, q[1]>> \in EdgePairs(g)
                  THEN 1 ELSE 0)

\* C26: get_dependency_depth(t) returns on every task of every graph, cycles
\* and self-loops included; a task met again on the current recursion path
\* contributes 0, so the result is the greatest number of edges walked
\* upstream from t until a task repeats, and lies between 0 and the number
\* of tasks.
C26_DependencyDepthBounded ==
    call.op = "get_dependency_depth" =>
        /\ ret.raised = "none"
        /\ ret.value >= 0
        /\ ret.value <= Cardinality(TaskIds(graph))
        /\ ret.value = Max({WalkLength(graph, q) :
                               q \in SimplePathsTo(graph, call.task_id)})

\* on the cycle 1->2, 2->3, 3->1 the depth of task 1 is 3, the number of tasks
C26_Witness ==
    /\ call.op = "get_dependency_depth"
    /\ TaskIds(graph) = 1 .. 3
    /\ EdgePairs(graph) = {<<1, 2>>, <<2, 3>>, <<3, 1>>}
    /\ call.task_id = 1
    /\ ret.value = 3


(***************************************************************************)
(* Specification SpecValidate: GraphValidator.validate() on a FlowGraph    *)
(* whose tasks and edges were filled in directly (graph.tasks[...] = ...,  *)
(* graph.edges.append(...)), as the validator's tests do: an edge may name *)
(* a task the graph does not have, and a task id may be the empty string,  *)
(* which is the id 0.                                                      *)
(***************************************************************************)
MaxRawEdges == 2

\* the ids tasks are stored under
RawTaskIds == {0, 1, 2}

\* the ids edges may name
RawEdgeIds == RawTaskIds \cup {3}

\* the graph with the tasks of ids and the edges of the pairs of l, in order
RawGraph(ids, l) ==
    [object_name |-> "test",
     tasks |-> [i \in ids |-> Task(i, "ReadExcel")],
     edges |-> [j \in DOMAIN l |-> Edge(l[j][1], l[j][2], "None", "dependency")]]

InitValidate ==
    /\ config_cache = EmptyDict
    /\ config_dir = EmptyDict
    /\ \E ids \in SUBSET RawTaskIds :
       \E k \in 0 .. MaxRawEdges :
       \E l \in [1 .. k -> RawEdgeIds \X RawEdgeIds] :
           graph = RawGraph(ids, l)
    /\ call = NoCall
    /\ ret = NoRet

\* GraphValidator(graph).validate()
ValidateRaw ==
    /\ call = NoCall
    /\ graph' = graph
    /\ UNCHANGED <<config_cache, config_dir>>
    /\ call' = [op |-> "validate"]
    /\ ret' = [raised |-> "none", value |-> validate(graph)]

NextValidate == ValidateRaw

SpecValidate == InitValidate /\ [][NextValidate]_vars

\* the error texts of the result
ErrorTexts == Msgs(ret.value.errors)

\* some edge names a task the graph does not have
HasDanglingEdge(g) ==
    \E p \in EdgePairs(g) : p[1] \notin TaskIds(g) \/ p[2] \notin TaskIds(g)

\* some task reaches itself along edges between tasks of the graph
HasTaskCycle(g) ==
    \E p \in TransitiveClosure(EdgePairs(g) \cap (TaskIds(g) \X TaskIds(g))) :
        p[1] = p[2]

\* C27: structural errors accumulate in validate(): whichever of the error
\* conditions hold for the graph (no tasks, an edge naming a missing task, a
\* directed cycle, an empty task id), one validate() call reports every one
\* of them, and it does not raise.
C27_ErrorsAccumulate ==
    call.op = "validate" =>
        /\ ret.raised = "none"
        /\ TaskIds(graph) = {} => "Graph has no tasks" \in ErrorTexts
        /\ HasDanglingEdge(graph) =>
               ErrorTexts \cap {"Edge references non-existent source",
                                "Edge references non-existent target"} # {}
        /\ HasTaskCycle(graph) => "Graph contains cycles" \in ErrorTexts
        /\ 0 \in TaskIds(graph) => "Empty task ID found" \in ErrorTexts

\* on a graph with a task every condition that holds is reported
ErrorsAccumulateOnNonEmptyGraph == TaskIds(graph) # {} => C27_ErrorsAccumulate


(***************************************************************************)
(* The order of the steps of build() (under SpecBuild)                     *)
(***************************************************************************)
\* the tasks of g that no edge of g names
IsolatedIn(g) ==
    {id \in TaskIds(g) : \A p \in EdgePairs(g) : p[1] # id /\ p[2] # id}

\* the tasks the result reports as isolated
IsolatedReported ==
    UNION {Range(ret.value.errors[k].arg) :
              k \in {j \in DOMAIN ret.value.errors :
                        ret.value.errors[j].msg = "Isolated tasks found"}}

\* the edges of the returned graph that the parser did not return
SynthesizedEdges ==
    {k \in DOMAIN ret.value.graph.edges :
        \A j \in DOMAIN call.in.analysis.edges :
            ~EdgeEq(ret.value.graph.edges[k], call.in.analysis.edges[j])}

\* C28: build() constructs the graph, then auto-links, then validates, then
\* counts: the tasks reported as isolated are exactly those that no edge of
\* the returned graph names, synthesized edges included; when there is one
\* the build fails and the graph with all its tasks is still returned; and
\* edge_count counts the synthesized edges too.
C28_ValidationAfterAutoLink ==
    (BuildReturned /\ call.in.fault = "none") =>
        LET g == ret.value.graph
        IN  /\ IsolatedReported = IsolatedIn(g)
            /\ \A k \in SynthesizedEdges :
                  /\ g.edges[k].source_id \notin IsolatedReported
                  /\ g.edges[k].target_id \notin IsolatedReported
            /\ IsolatedIn(g) # {} =>
                  /\ ~ret.value.success
                  /\ TaskIds(g) = {call.in.analysis.tasks[i].task_id :
                                      i \in DOMAIN call.in.analysis.tasks}
            /\ ret.value.metadata.edge_count = Len(g.edges)
            /\ ret.value.metadata.edge_count >= Cardinality(SynthesizedEdges)

\* a Mapping and a CreateObjects task that the source leaves unconnected:
\* the build links them, reports no isolated task and counts one edge
C28_Witness ==
    /\ BuildReturned
    /\ call.in.fault = "none"
    /\ call.in.analysis.edges = <<>>
    /\ Len(call.in.analysis.tasks) = 2
    /\ Cardinality(SynthesizedEdges) = 1
    /\ ret.value.success
    /\ ret.value.metadata.edge_count = 1


\* C29: auto-linking never makes an acyclic graph cyclic: when the graph
\* _link_known_terminal_chain starts from has no directed cycle, the graph
\* it leaves has none, whatever edges were there between the linked tasks.
C29_AutoLinkKeepsAcyclic ==
    (Linked /\ ~HasDirectedCycle(call.graph)) => ~HasDirectedCycle(graph)


(***************************************************************************)
(* Agreement of the analyses (under SpecAnalysis)                          *)
(***************************************************************************)
\* the greatest dependency depth of a task of the non-empty graph g
MaxDepth(g) == Max({get_dependency_depth(g, id) : id \in TaskIds(g)})

\* the lengths of the paths find_critical_path can return on g
CriticalLengths(g) == {Len(path) : path \in find_critical_path(g).paths}

\* C30: on every acyclic graph the analyses agree: a task's layer in
\* get_execution_order() has the index get_dependency_depth gives the task,
\* so on a non-empty graph the number of layers is 1 + the greatest
\* dependency depth, and it is the number of tasks on the critical path.
C30_AnalysesAgree ==
    ~HasDirectedCycle(graph) =>
        /\ call.op = "get_execution_order" =>
              /\ \A id \in TaskIds(graph) :
                     LayerOf(ret.value, id) = get_dependency_depth(graph, id)
              /\ TaskIds(graph) # {} => Len(ret.value) = 1 + MaxDepth(graph)
              /\ CriticalLengths(graph) = {Len(ret.value)}
        /\ call.op = "get_dependency_depth" =>
              /\ ret.value = LayerOf(get_execution_order(graph), call.task_id)
              /\ 1 + ret.value <= Len(get_execution_order(graph))
        /\ call.op = "find_critical_path" =>
              /\ ret.raised = "none"
              /\ Len(ret.value) = Len(get_execution_order(graph))
              /\ TaskIds(graph) # {} => Len(ret.value) = 1 + MaxDepth(graph)

\* on 1->2, 1->3, 2->4, 3->4 task 4 has depth 2, in the last of three layers
C30_Witness ==
    /\ call.op = "get_dependency_depth"
    /\ TaskIds(graph) = 1 .. 4
    /\ EdgePairs(graph) = {<<1, 2>>, <<1, 3>>, <<2, 4>>, <<3, 4>>}
    /\ call.task_id = 4
    /\ ret.value = 2
    /\ Len(get_execution_order(graph)) = 3

====
